---- MODULE Spec2Model ----
(***************************************************************************)
(* A model of the orange-dragonfly-validator rule engine: schema cloning   *)
(* and normalization, the meta-schema bootstrap, the rule evaluator, the   *)
(* schema walker and the entry points (ODVValidator.validate, parse,       *)
(* safeParse, validate).                                                   *)
(*                                                                         *)
(* JavaScript objects live in a heap of cells addressed by id, so that     *)
(* aliasing between the caller's objects and the engine's working copies   *)
(* is part of the model: a shallow clone shares its nested cells with the  *)
(* original, a schema's default value is shared with every output it is   *)
(* written into.                                                           *)
(***************************************************************************)
EXTENDS Integers, Sequences, FiniteSets, TLC

(***************************************************************************)
(* Values.  Every JavaScript value is a record [t, s, n]:                  *)
(*   undefined  t = "undefined"                                            *)
(*   null       t = "null"                                                 *)
(*   boolean    t = "boolean", n = 1 for true and 0 for false             *)
(*   number     t = "num", n = twice the value (so that x.5 is            *)
(*              representable), s = "" when finite and "NaN", "Infinity"   *)
(*              or "-Infinity" otherwise                                   *)
(*   string     t = "string", s = the characters                           *)
(*   function   t = "function", s = the function's name                    *)
(*   reference  t = "ref", n = the id of a heap cell (object or array)     *)
(***************************************************************************)
V(t, s, n) == [t |-> t, s |-> s, n |-> n]
Undef == V("undefined", "", 0)
Null == V("null", "", 0)
Bool(b) == V("boolean", "", IF b THEN 1 ELSE 0)
Num(i) == V("num", "", 2 * i)
Half(i) == V("num", "", i)
NaN == V("num", "NaN", 0)
Str(s) == V("string", s, 0)
Fn(name) == V("function", name, 0)
Ref(id) == V("ref", "", id)

(***************************************************************************)
(* Heap cells: kind is "object", "array" or "regexp", keys the own          *)
(* enumerable keys in Object.keys order, f the value under each key, proto *)
(* the prototype when it is another cell (undefined stands for the         *)
(* built-in prototype of the kind).  An array of length n has the keys     *)
(* "0" .. "n-1".  A RegExp has no enumerable key; f holds its source,      *)
(* flags and lastIndex.                                                    *)
(***************************************************************************)
Cell(kind, keys, f) == [kind |-> kind, keys |-> keys, f |-> f, proto |-> Undef]
EmptyFn == [k \in {} |-> Undef]
EmptyObject == Cell("object", <<>>, EmptyFn)
EmptyArray == Cell("array", <<>>, EmptyFn)

\* new RegExp(source, flags)
RegExpCell(source, flags) ==
  Cell("regexp", <<>>,
       ("source" :> Str(source)) @@ ("flags" :> Str(flags)) @@ ("lastIndex" :> Num(0)))

Range(seq) == {seq[i] : i \in 1..Len(seq)}

IsRef(v) == v.t = "ref"
IsArray(h, v) == IsRef(v) /\ h[v.n].kind = "array"
IsObjectLike(v) == v.t = "ref" \/ v.t = "null"
IsRegExp(h, v) == IsRef(v) /\ h[v.n].kind = "regexp"

\* Object.hasOwn(o, k)
HasOwn(h, v, k) == IsRef(v) /\ k \in DOMAIN h[v.n].f

RECURSIVE Get(_, _, _)
\* o[k] read: the own key, else the key of the prototype chain (the
\* built-in prototypes hold none of the keys the engine reads)
Get(h, v, k) ==
  IF ~IsRef(v) THEN Undef
  ELSE IF k \in DOMAIN h[v.n].f THEN h[v.n].f[k]
  ELSE Get(h, h[v.n].proto, k)

\* Object.keys(o)
ObjectKeys(h, v) == IF IsRef(v) THEN h[v.n].keys ELSE <<>>

\* The mutation of one cell by o[k] = x.  On a plain object the key
\* "__proto__" is the prototype accessor: the assignment of an object or
\* null replaces the prototype, that of another value does nothing, and
\* neither creates an own key.
CellSet(cell, k, x) ==
  IF k = "__proto__" /\ k \notin DOMAIN cell.f
  THEN IF IsObjectLike(x) THEN [cell EXCEPT !.proto = x] ELSE cell
  ELSE IF k \in DOMAIN cell.f THEN [cell EXCEPT !.f[k] = x]
  ELSE [cell EXCEPT !.keys = Append(cell.keys, k), !.f = (k :> x) @@ cell.f]

\* CreateDataProperty, as used by object spread and JSON.parse: always an
\* own key, "__proto__" included.
CellDefine(cell, k, x) ==
  IF k \in DOMAIN cell.f THEN [cell EXCEPT !.f[k] = x]
  ELSE [cell EXCEPT !.keys = Append(cell.keys, k), !.f = (k :> x) @@ cell.f]

\* delete o[k]
CellDelete(cell, k) ==
  IF k \notin DOMAIN cell.f THEN cell
  ELSE [cell EXCEPT !.keys = SelectSeq(cell.keys, LAMBDA x : x # k),
                     !.f = [j \in (DOMAIN cell.f) \ {k} |-> cell.f[j]]]

SetProp(h, v, k, x) == [h EXCEPT ![v.n] = CellSet(h[v.n], k, x)]

\* { ...o } and [ ...a ]: a new cell with the own keys of o and the
\* built-in prototype; the values are copied, so nested objects are shared
\* with o.
Spread(h, v) ==
  IF IsRef(v) /\ h[v.n].kind # "regexp" THEN [h[v.n] EXCEPT !.proto = Undef]
  ELSE EmptyObject

Truthy(v) ==
  CASE v.t = "undefined" -> FALSE
    [] v.t = "null" -> FALSE
    [] v.t = "boolean" -> v.n = 1
    [] v.t = "num" -> (v.s = "" /\ v.n # 0) \/ v.s \in {"Infinity", "-Infinity"}
    [] v.t = "string" -> v.s # ""
    [] OTHER -> TRUE

(***************************************************************************)
(* Literals: a value written as a tree, with the operators that build one, *)
(* allocate it in the heap and read it back.  A tree is a record           *)
(* [t, s, n, keys, c]; for an object or array, keys are its keys in order  *)
(* and c its children.                                                     *)
(***************************************************************************)
Leaf(v) == [t |-> v.t, s |-> v.s, n |-> v.n, keys |-> <<>>, c |-> EmptyFn]
Node(kind, pairs) ==
  [t |-> kind, s |-> "", n |-> 0,
   keys |-> [i \in 1..Len(pairs) |-> pairs[i][1]],
   c |-> [k \in {pairs[i][1] : i \in 1..Len(pairs)} |->
            pairs[CHOOSE i \in 1..Len(pairs) : pairs[i][1] = k][2]]]
Obj(pairs) == Node("object", pairs)
Arr(items) == Node("array", [i \in 1..Len(items) |-> <<ToString(i - 1), items[i]>>])
LStr(s) == Leaf(Str(s))
LInt(i) == Leaf(Num(i))
LBool(b) == Leaf(Bool(b))
LNull == Leaf(Null)
LFn(name) == Leaf(Fn(name))
StrList(names) == Arr([i \in 1..Len(names) |-> LStr(names[i])])
\* A RegExp literal /source/flags
LRegExp(source, flags) ==
  [t |-> "regexp", s |-> "", n |-> 0, keys |-> <<>>,
   c |-> ("source" :> LStr(source)) @@ ("flags" :> LStr(flags)) @@ ("lastIndex" :> LInt(0))]

RECURSIVE Cells(_, _)
RECURSIVE KidCells(_, _, _, _)
\* The cells of a tree laid out after `base` existing cells, children before
\* their parent: [cells, v].
Cells(tree, base) ==
  IF tree.t = "regexp"
  THEN [cells |-> <<RegExpCell(tree.c["source"].s, tree.c["flags"].s)>>, v |-> Ref(base + 1)]
  ELSE IF tree.t \notin {"object", "array"}
  THEN [cells |-> <<>>, v |-> V(tree.t, tree.s, tree.n)]
  ELSE LET r == KidCells(tree, 1, Len(tree.keys), base)
       IN [cells |-> Append(r.cells, Cell(tree.t, tree.keys, r.f)),
           v |-> Ref(base + Len(r.cells) + 1)]
\* The cells of the children lo..hi of a tree and their values: [cells, f]
KidCells(tree, lo, hi, base) ==
  IF lo > hi THEN [cells |-> <<>>, f |-> EmptyFn]
  ELSE IF lo = hi
  THEN LET a == Cells(tree.c[tree.keys[lo]], base)
       IN [cells |-> a.cells, f |-> tree.keys[lo] :> a.v]
  ELSE LET left == KidCells(tree, lo, (lo + hi) \div 2, base)
           right == KidCells(tree, (lo + hi) \div 2 + 1, hi, base + Len(left.cells))
       IN [cells |-> left.cells \o right.cells, f |-> left.f @@ right.f]

\* The heap and value after allocating the tree: [h, v].
Alloc(h, tree) ==
  LET a == Cells(tree, Len(h)) IN [h |-> h \o a.cells, v |-> a.v]

RECURSIVE Freeze(_, _)
\* The tree of a value: what JSON.stringify and deep equality observe
\* (functions are kept by name).
Freeze(h, v) ==
  IF ~IsRef(v) THEN Leaf(v)
  ELSE [t |-> h[v.n].kind, s |-> "", n |-> 0, keys |-> h[v.n].keys,
        c |-> [k \in DOMAIN h[v.n].f |-> Freeze(h, h[v.n].f[k])]]


(***************************************************************************)
(* The engine's working state, threaded through every step of one call:    *)
(*   h        the heap                                                     *)
(*   errors   the validator's ErrorsMap: keys in insertion order, f the    *)
(*            list of entries [code, params] under each key                *)
(*   ex       "" while running, else the class of the exception in flight  *)
(*   details  the ErrorsMap the exception carries                          *)
(*   cache    the sources held by the module-level patternCache            *)
(*   boots    the number of times ODVRules.validate was run                *)
(*   depth    the processRules frames on the stack                         *)
(*   deepest  the most frames a validator of the caller had on the stack   *)
(*   metaDeepest  the same for the internal validators of the schema check *)
(***************************************************************************)
NoErrors == [keys |-> <<>>, f |-> [k \in {} |-> <<>>]]
NoParams == [k \in {} |-> Undef]
Entry(code, params) == [code |-> code, params |-> params]
St(h, cache) == [h |-> h, errors |-> NoErrors, ex |-> "", details |-> NoErrors,
                  cache |-> cache, boots |-> 0, depth |-> 0, deepest |-> 0,
                  metaDeepest |-> 0]
Throw(st, ex, details) == [st EXCEPT !.ex = ex, !.details = details]
TypeError(st) == Throw(st, "TypeError", NoErrors)
Res(st, v) == [st |-> st, v |-> v]

\* errors[errKey] = [] when absent, then errors[errKey].push(entry).  The
\* ErrorsMap is a plain object: under the key "__proto__" the assignment
\* replaces its prototype by the fresh list and the entry is pushed there, so
\* the map gains no own key.
PushError(errors, errKey, entry) ==
  IF errKey = "__proto__" THEN errors
  ELSE IF errKey \in DOMAIN errors.f
  THEN [errors EXCEPT !.f[errKey] = Append(@, entry)]
  ELSE [keys |-> Append(errors.keys, errKey), f |-> (errKey :> <<entry>>) @@ errors.f]

\* ODVValidator.addError
addError(st, errKey, code, params) ==
  [st EXCEPT !.errors = PushError(st.errors, errKey, Entry(code, params))]

\* throwRulesError with an info map of one entry
throwRulesError(st, errorsKey, code, params) ==
  Throw(st, "ODVRulesException", PushError(NoErrors, errorsKey, Entry(code, params)))

POISONED_KEYS == {"__proto__", "constructor", "prototype"}
isSafeKey(key) == key \notin POISONED_KEYS

META_KEYS == {"@", "#", "*"}

(***************************************************************************)
(* Library behaviour the engine relies on.                                 *)
(***************************************************************************)
\* Array.prototype.includes (SameValueZero: primitives by value, objects by
\* identity).
Includes(h, arr, x) == \E k \in DOMAIN h[arr.n].f : h[arr.n].f[k] = x

ArrayLen(h, arr) == Len(h[arr.n].keys)

\* String.prototype.includes
StrIncludes(s, sub) ==
  \E i \in 1..(Len(s) - Len(sub) + 1) : SubSeq(s, i, i + Len(sub) - 1) = sub

\* String(x) for the values a type list or key may hold
ToStr(v) ==
  CASE v.t = "string" -> v.s
    [] v.t = "num" -> IF v.s # "" THEN v.s ELSE ToString(v.n \div 2)
    [] v.t \in {"null", "undefined"} -> ""
    [] v.t = "boolean" -> IF v.n = 1 THEN "true" ELSE "false"
    [] OTHER -> "[object Object]"

RECURSIVE JoinFrom(_, _, _, _)
JoinFrom(h, arr, i, sep) ==
  IF i > ArrayLen(h, arr) THEN ""
  ELSE (IF i > 1 THEN sep ELSE "") \o ToStr(h[arr.n].f[h[arr.n].keys[i]])
       \o JoinFrom(h, arr, i + 1, sep)
\* Array.prototype.join
Join(h, arr, sep) == JoinFrom(h, arr, 1, sep)

\* The transform callbacks the callers of this model pass: pure functions of
\* the value, named in the schema.
DigitStrings == {"7", "42", "100"}
DigitValue(s) == CASE s = "7" -> 7 [] s = "42" -> 42 [] s = "100" -> 100 [] OTHER -> 0
Lowered(s) == CASE s = "ABC" -> "abc" [] s = "No" -> "no" [] OTHER -> s
CallTransform(fn, v) ==
  CASE fn.s = "inc" -> IF v.t = "num" /\ v.s = "" THEN V("num", "", v.n + 2) ELSE v
    [] fn.s = "toLowerCase" -> IF v.t = "string" THEN Str(Lowered(v.s)) ELSE v
    [] fn.s = "parseInt" ->
         IF v.t = "string" /\ v.s \in DigitStrings THEN Num(DigitValue(v.s))
         ELSE IF v.t = "num" THEN v ELSE NaN
    [] fn.s = "toNull" -> Null
    [] OTHER -> v

\* Whether s is one or more characters, each of them in `chars`
AllIn(s, chars) ==
  /\ Len(s) > 0
  /\ \A i \in 1..Len(s) : \E j \in 1..Len(chars) : SubSeq(s, i, i) = SubSeq(chars, j, j)

\* Whether a string matches a pattern, for the patterns of this model, which
\* are anchored at both ends
Matches(source, s) ==
  CASE source = "^[a-z]+$" -> AllIn(s, "abcdefghijklmnopqrstuvwxyz")
    [] source = "^[0-9]+$" -> AllIn(s, "0123456789")
    [] OTHER -> TRUE

(***************************************************************************)
(* Rule evaluation.                                                        *)
(***************************************************************************)
\* The ODV value type of a value; "" stands for the null result given to a
\* non-finite number.
getValueType(h, value) ==
  CASE value.t = "ref" -> IF h[value.n].kind = "array" THEN "array" ELSE "object"
    [] value.t = "null" -> "null"
    [] value.t = "num" ->
         IF value.s # "" THEN "" ELSE IF value.n % 2 = 0 THEN "integer" ELSE "number"
    [] OTHER -> value.t

\* The magnitude compared with min and max, on the scale of number values
\* (twice the quantity); -1 stands for the null result.
getValueForMinOrMax(h, value, valueType) ==
  CASE valueType = "array" -> 2 * ArrayLen(h, value)
    [] valueType = "string" -> 2 * Len(value.s)
    [] valueType \in {"number", "integer"} -> value.n
    [] OTHER -> -1
\* Every type taken to have a magnitude
EveryTypeMeasured(valueType) == TRUE
HasMagnitude(valueType) == valueType \in {"array", "string", "number", "integer"}

\* a ?? b
Nullish(v) == v.t \in {"undefined", "null"}
Coalesce(a, b) == IF Nullish(a) THEN b ELSE a

\* Bounds that exclude their own value: a magnitude equal to min or to max
\* is an error too
checkMinMaxExclusive(st, value, valueType, min, max, def, errorsKey) ==
  IF st.ex # "" \/ ~HasMagnitude(valueType) THEN st
  ELSE LET minMaxValue == getValueForMinOrMax(st.h, value, valueType)
           actual == V("num", "", minMaxValue)
           s1 == IF min.t = "num" /\ min.s = "" /\ minMaxValue <= min.n
                 THEN [st EXCEPT !.errors = PushError(st.errors, errorsKey,
                         Entry("MIN_VIOLATION", ("min" :> min) @@ ("actual" :> actual)))]
                 ELSE st
       IN IF max.t = "num" /\ max.s = "" /\ minMaxValue >= max.n
          THEN [s1 EXCEPT !.errors = PushError(s1.errors, errorsKey,
                  Entry("MAX_VIOLATION", ("max" :> max) @@ ("actual" :> actual)))]
          ELSE s1

checkMinMax(st, value, valueType, min, max, def, errorsKey) ==
  IF st.ex # "" THEN st
  ELSE LET minMaxValue == getValueForMinOrMax(st.h, value, valueType)
           actual == V("num", "", minMaxValue)
           type == Get(st.h, def, "type")
           s1 == IF min.t = "num" /\ min.s = "" /\ minMaxValue < min.n
                 THEN [st EXCEPT !.errors = PushError(st.errors, errorsKey,
                         Entry("MIN_VIOLATION", ("min" :> min) @@ ("actual" :> actual)))]
                 ELSE st
           s2 == IF max.t = "num" /\ max.s = "" /\ minMaxValue > max.n
                 THEN [s1 EXCEPT !.errors = PushError(s1.errors, errorsKey,
                         Entry("MAX_VIOLATION", ("max" :> max) @@ ("actual" :> actual)))]
                 ELSE s1
       IN IF HasMagnitude(valueType) THEN s2
          ELSE IF Nullish(type) \/ (IsRef(type) /\ ArrayLen(st.h, type) < 2)
                  \/ (type.t = "string" /\ Len(type.s) < 2)
          THEN throwRulesError(st, errorsKey, "MIN_MAX_NOT_APPLICABLE",
                               "actual" :> Str(valueType))
          ELSE st

\* The params of a not-in-list error: { allowed }, a fresh copy of the list
\* when in:public asks for one.  [h, params]
AllowedParams(h, inList, inPublic) ==
  IF ~Truthy(inPublic) THEN [h |-> h, params |-> "allowed" :> Undef]
  ELSE LET src == IF inPublic = Bool(TRUE) THEN inList ELSE inPublic
       IN [h |-> Append(h, Spread(h, src)), params |-> "allowed" :> Ref(Len(h) + 1)]

checkInList(st, value, valueType, inList, inPublic, errorsKey) ==
  IF st.ex # "" THEN st
  ELSE IF valueType = "object"
  THEN throwRulesError(st, errorsKey, "IN_NOT_APPLICABLE", NoParams)
  ELSE IF ~IsArray(st.h, inList) THEN TypeError(st)
  ELSE LET bad == IF valueType = "array"
                  THEN \E k \in DOMAIN st.h[value.n].f :
                          ~Includes(st.h, inList, st.h[value.n].f[k])
                  ELSE ~Includes(st.h, inList, value)
           code == IF valueType = "array" THEN "ARRAY_ELEMENT_NOT_IN_LIST"
                   ELSE "VALUE_NOT_IN_LIST"
           a == AllowedParams(st.h, inList, inPublic)
       IN IF bad
          THEN [st EXCEPT !.h = a.h,
                          !.errors = PushError(st.errors, errorsKey, Entry(code, a.params))]
          ELSE st


\* expression.test(str) on a RegExp object: with the g flag the search
\* starts at lastIndex and test stores where it ended.  [h, ok]
TestRegExp(h, re, str) ==
  LET cell == h[re.n]
      found == Matches(cell.f["source"].s, str)
  IN IF cell.f["flags"].s # "g" THEN [h |-> h, ok |-> found]
     ELSE IF cell.f["lastIndex"].n = 0 /\ found
     THEN [h |-> [h EXCEPT ![re.n].f["lastIndex"] = Num(Len(str))], ok |-> TRUE]
     ELSE [h |-> [h EXCEPT ![re.n].f["lastIndex"] = Num(0)], ok |-> FALSE]

SPECIAL_MAX_LENGTHS ==
  [email |-> 4096, phone |-> 16, url |-> 8192, uuid |-> 36, ipv4 |-> 15,
   date |-> 10, datetime |-> 35]
  @@ ("us-phone" :> 12) @@ ("hex-color" :> 9)

\* SPECIAL_VALIDATORS[special].test(str), for the strings of this model
SpecialStrings ==
  [email |-> {"a@b.co"}, phone |-> {"+12025550123"}, url |-> {"http://a.co"},
   uuid |-> {}, ipv4 |-> {"10.0.0.1"}, date |-> {"2024-01-15"}, datetime |-> {}]
  @@ ("us-phone" :> {"+12025550123"}) @@ ("hex-color" :> {"#fff"})
SPECIAL_VALIDATORS(special, str) == str \in SpecialStrings[special]

\* The two checks of a string in the other order: the pattern first, the
\* format after it
checkPatternThenSpecial(st, value, valueType, pattern, special, errorsKey) ==
  IF st.ex # "" THEN st
  ELSE IF valueType # "string"
  THEN [st EXCEPT !.errors = PushError(st.errors, errorsKey,
                                       Entry("PATTERN_MISMATCH", NoParams))]
  ELSE LET str == value.s
           format == Entry("INVALID_FORMAT", "format" :> special)
           known == special.t = "string" /\ special.s \in DOMAIN SPECIAL_MAX_LENGTHS
           mismatch(s) == [s EXCEPT !.errors = PushError(s.errors, errorsKey,
                                                        Entry("PATTERN_MISMATCH", NoParams))]
           s1 == IF pattern.t = "string" /\ ~Matches(pattern.s, str) THEN mismatch(st)
                 ELSE IF IsRegExp(st.h, pattern) /\ ~TestRegExp(st.h, pattern, str).ok
                 THEN mismatch(st)
                 ELSE st
       IN IF special.t = "undefined" \/ ~known THEN s1
          ELSE IF Len(str) > SPECIAL_MAX_LENGTHS[special.s]
                  \/ ~SPECIAL_VALIDATORS(special.s, str)
          THEN [s1 EXCEPT !.errors = PushError(s1.errors, errorsKey, format)]
          ELSE s1

checkPattern(st, value, valueType, pattern, special, errorsKey) ==
  IF st.ex # "" THEN st
  ELSE IF valueType # "string"
  THEN [st EXCEPT !.errors = PushError(st.errors, errorsKey,
                                       Entry("PATTERN_MISMATCH", NoParams))]
  ELSE LET str == value.s
           format == Entry("INVALID_FORMAT", "format" :> special)
           known == special.t = "string" /\ special.s \in DOMAIN SPECIAL_MAX_LENGTHS
           s1 == IF special.t = "undefined" \/ ~known THEN st
                 ELSE IF Len(str) > SPECIAL_MAX_LENGTHS[special.s]
                      \/ ~SPECIAL_VALIDATORS(special.s, str)
                 THEN [st EXCEPT !.errors = PushError(st.errors, errorsKey, format)]
                 ELSE st
           mismatch(s) == [s EXCEPT !.errors = PushError(s.errors, errorsKey,
                                                        Entry("PATTERN_MISMATCH", NoParams))]
       IN IF pattern.t = "undefined" THEN s1
          ELSE IF pattern.t = "string"
          THEN LET s2 == [s1 EXCEPT !.cache = @ \cup {pattern.s}]
               IN IF Matches(pattern.s, str) THEN s2 ELSE mismatch(s2)
          ELSE IF IsRegExp(s1.h, pattern)
          THEN LET r == TestRegExp(s1.h, pattern, str)
                   s2 == [s1 EXCEPT !.h = r.h]
               IN IF r.ok THEN s2 ELSE mismatch(s2)
          ELSE TypeError(s1)

(***************************************************************************)
(* The schema walker and the rule evaluator call each other: applyRule     *)
(* recurses into children through the processChildren callback, which runs *)
(* processRules on the nested value in place.  opts are the validator's    *)
(* resolved options [strictMode, exceptionMode, internalCall].             *)
(***************************************************************************)
RECURSIVE processRules(_, _, _, _, _)
RECURSIVE applyRule(_, _, _, _, _)
RECURSIVE WildcardsFrom(_, _, _, _, _, _, _, _)
RECURSIVE NamedRulesFrom(_, _, _, _, _, _, _, _)

RECURSIVE AssignFrom(_, _, _)
AssignFrom(target, source, i) ==
  IF i > Len(source.keys) THEN target
  ELSE AssignFrom(CellSet(target, source.keys[i], source.f[source.keys[i]]), source, i + 1)
\* Object.assign(target, source)
ObjectAssign(h, target, source) ==
  [h EXCEPT ![target.n] = AssignFrom(h[target.n], h[source.n], 1)]

\* Object.assign(childInput, v.data) once the nested walk left state s: the
\* nested validator's data is childInput itself
AssignWalked(s, childInput) ==
  IF s.ex # "" THEN s ELSE [s EXCEPT !.h = ObjectAssign(s.h, childInput, childInput)]

\* The callback built by processRules: walk the nested value in place, then
\* copy the walked data over it.
processChildren(st, childRules, childInput, prefix, opts) ==
  AssignWalked(processRules(st, childRules, childInput, prefix, opts), childInput)

\* Whether every name of the type list is object or array
OnlyContainers(h, type) ==
  \A k \in DOMAIN h[type.n].f : h[type.n].f[k] \in {Str("object"), Str("array")}

\* A checkChildren that lets every value that is no container pass
ChildrenOfScalarSilent(st, valueType, type, errorsKey) == st

\* The branch of checkChildren for a value that is no container, given
\* def.type
ChildrenOfScalar(st, valueType, type, errorsKey) ==
  IF type.t = "undefined"
  THEN throwRulesError(st, errorsKey, "CHILDREN_TYPE_ERROR", "actual" :> Str(valueType))
  ELSE IF ~IsArray(st.h, type) THEN TypeError(st)
  ELSE IF OnlyContainers(st.h, type)
  THEN throwRulesError(st, errorsKey, "CHILDREN_TYPE_ERROR", "actual" :> Str(valueType))
  ELSE st

\* A descent that hands the children the path of their parent as it is,
\* without the '.' behind it
checkChildrenUndotted(st, value, valueType, children, def, errorsKey, opts) ==
  IF st.ex # "" THEN st
  ELSE IF valueType \in {"object", "array"}
  THEN processChildren(st, children, value, errorsKey, opts)
  ELSE ChildrenOfScalar(st, valueType, Get(st.h, def, "type"), errorsKey)

checkChildren(st, value, valueType, children, def, errorsKey, opts) ==
  IF st.ex # "" THEN st
  ELSE IF valueType \in {"object", "array"}
  THEN processChildren(st, children, value, errorsKey \o ".", opts)
  ELSE ChildrenOfScalar(st, valueType, Get(st.h, def, "type"), errorsKey)

\* The transform left out: the checks see the value supplied
TransformedNot(transform, originalValue) == originalValue

\* def.transform !== undefined ? def.transform(originalValue) : originalValue
Transformed(transform, originalValue) ==
  IF transform.t # "undefined" THEN CallTransform(transform, originalValue)
  ELSE originalValue

\* addError(TYPE_MISMATCH, { expected: def.type.join(' or '), actual })
TypeMismatch(st, type, actual, errorsKey) ==
  [st EXCEPT !.errors = PushError(st.errors, errorsKey,
     Entry("TYPE_MISMATCH",
           ("expected" :> Str(Join(st.h, type, " or "))) @@ ("actual" :> Str(actual))))]

\* An evaluator without overlays: the base rule decides for every type
PerTypeIgnored(h, per_type, valueType) == Undef

\* The per_type overlay for the value's type: def.per_type[valueType] when
\* it is an own key, undefined otherwise
PerTypeOverlay(h, per_type, valueType) ==
  IF per_type.t # "undefined" /\ HasOwn(h, per_type, valueType)
  THEN Get(h, per_type, valueType) ELSE Undef

\* perType?.[name] ?? def[name]
Resolved(h, perType, def, name) == Coalesce(Get(h, perType, name), Get(h, def, name))

\* The four guarded checks of applyRule, each given the attributes resolved
\* before the first of them runs
MinMaxChecked(s, value, valueType, min, max, def, errorsKey) ==
  IF min.t # "undefined" \/ max.t # "undefined"
  THEN checkMinMax(s, value, valueType, min, max, def, errorsKey) ELSE s
\* An evaluator that never looks at the allow-list
InListSkipped(s, value, valueType, inList, inPublic, errorsKey) == s
InListChecked(s, value, valueType, inList, inPublic, errorsKey) ==
  IF inList.t # "undefined"
  THEN checkInList(s, value, valueType, inList, inPublic, errorsKey) ELSE s
PatternChecked(s, value, valueType, pattern, special, errorsKey) ==
  IF pattern.t # "undefined" \/ special.t # "undefined"
  THEN checkPattern(s, value, valueType, pattern, special, errorsKey) ELSE s
ChildrenChecked(s, value, valueType, children, def, errorsKey, opts) ==
  IF children.t # "undefined"
  THEN checkChildren(s, value, valueType, children, def, errorsKey, opts) ELSE s

\* The checks of a value that passed the type check and is not null: they
\* run one after the other, each on the state the one before it left, with
\* the attributes read from the overlay first, then from def.
RuleChecks(st, def, value, valueType, perType, errorsKey, opts) ==
  ChildrenChecked(
    PatternChecked(
      InListChecked(
        MinMaxChecked(st, value, valueType, Resolved(st.h, perType, def, "min"),
                      Resolved(st.h, perType, def, "max"), def, errorsKey),
        value, valueType, Resolved(st.h, perType, def, "in"),
        Resolved(st.h, perType, def, "in:public"), errorsKey),
      value, valueType, Resolved(st.h, perType, def, "pattern"),
      Resolved(st.h, perType, def, "special"), errorsKey),
    value, valueType, Resolved(st.h, perType, def, "children"), def, errorsKey, opts)

\* def.type.includes(valueType) on a type that was left a bare name
NameIncludes(type, valueType) ==
  type.t = "string" /\ valueType # "" /\ StrIncludes(type.s, valueType)

\* A type check that records the mismatch and goes on to the checks all the
\* same: what applyRule would be without the return of its mismatch branch
TypeCheckedThrough(st, def, value, valueType, type, errorsKey, opts) ==
  IF valueType = "" \/ value.t = "null" \/ ~(Nullish(type) \/ IsArray(st.h, type))
  THEN Res(st, value)
  ELSE Res(RuleChecks(IF IsArray(st.h, type) /\ ~Includes(st.h, type, Str(valueType))
                      THEN TypeMismatch(st, type, valueType, errorsKey) ELSE st,
                      def, value, valueType, Undef, errorsKey, opts),
           value)

\* A rule that runs its checks on null as on any other value
NullChecked(value) == FALSE
\* value === null, the guard of the four checks of applyRule
ValueNull(value) == value.t = "null"

\* A rule that takes a non-finite number for a value of some type
NonFiniteTyped(valueType) == FALSE
\* valueType === null: getValueType found no type for the value
ValueTypeNull(valueType) == valueType = ""

\* applyRule from the type check on, given the transformed value, its type
\* and def.type: [st, v].  A type that is neither nullish nor a list has no
\* join, and no includes unless it is a string.
TypeChecked(st, def, value, valueType, type, errorsKey, opts) ==
  IF ~Nullish(type) /\ ~IsArray(st.h, type) /\ ~NameIncludes(type, valueType)
  THEN Res(TypeError(st), value)
  ELSE IF ValueTypeNull(valueType)
  THEN Res(IF ~Nullish(type) THEN TypeMismatch(st, type, "NaN/Infinity", errorsKey) ELSE st,
           value)
  ELSE IF IsArray(st.h, type) /\ ~Includes(st.h, type, Str(valueType))
  THEN Res(TypeMismatch(st, type, valueType, errorsKey), value)
  ELSE IF Get(st.h, def, "per_type").t = "null" THEN Res(TypeError(st), value)
  ELSE IF ValueNull(value) THEN Res(st, value)
  ELSE Res(RuleChecks(st, def, value, valueType,
                      PerTypeOverlay(st.h, Get(st.h, def, "per_type"), valueType),
                      errorsKey, opts),
           value)

\* applyRule once the value is transformed
RuleOnValue(st, def, value, errorsKey, opts) ==
  TypeChecked(st, def, value, getValueType(st.h, value), Get(st.h, def, "type"), errorsKey,
              opts)

\* [st, v]: the state after the rule's checks and the (possibly
\* transformed) value.
applyRule(st, def, originalValue, errorsKey, opts) ==
  IF st.ex # "" THEN Res(st, originalValue)
  ELSE IF Get(st.h, def, "transform").t \notin {"undefined", "function"}
  THEN Res(TypeError(st), originalValue)
  ELSE RuleOnValue(st, def, Transformed(Get(st.h, def, "transform"), originalValue),
                   errorsKey, opts)

\* data[key] = processedValue when the rule asks for it, after applyRule
\* returned r = [st, v]
ApplyTransformed(r, rule, data, key) ==
  IF r.st.ex = "" /\ Truthy(Get(r.st.h, rule, "apply_transformed"))
  THEN [r.st EXCEPT !.h = SetProp(r.st.h, data, key, r.v)]
  ELSE r.st

\* The '#' rule applied to one key of the data
HashApplied(s, hashRule, dataKey, errKeyPrefix, opts) ==
  IF Truthy(hashRule)
  THEN applyRule(s, hashRule, Str(dataKey), errKeyPrefix \o "#key", opts).st
  ELSE s

\* The '*' rule applied to the value under one key of the data
StarApplied(s, starRule, data, dataKey, errKeyPrefix, opts) ==
  IF Truthy(starRule)
  THEN ApplyTransformed(applyRule(s, starRule, Get(s.h, data, dataKey), errKeyPrefix, opts),
                        starRule, data, dataKey)
  ELSE s

\* The rounds lo..hi of the loop of processWildcards over the keys taken
\* before it; a range of several rounds is its first half, then its second
WildcardsFrom(st, hashRule, starRule, data, keys, lo, hi, ctx) ==
  IF st.ex # "" \/ lo > hi THEN st
  ELSE IF lo < hi
  THEN WildcardsFrom(
         WildcardsFrom(st, hashRule, starRule, data, keys, lo, (lo + hi) \div 2, ctx),
         hashRule, starRule, data, keys, (lo + hi) \div 2 + 1, hi, ctx)
  ELSE IF ~IsArray(st.h, data) /\ ~isSafeKey(keys[lo]) THEN st
  ELSE StarApplied(HashApplied(st, hashRule, keys[lo], ctx.prefix \o keys[lo], ctx.opts),
                   starRule, data, keys[lo], ctx.prefix \o keys[lo], ctx.opts)

\* processWildcards given the '#' and '*' rules of the level
WildcardsWith(st, hashRule, starRule, data, errorsPrefix, opts) ==
  IF ~Truthy(hashRule) /\ ~Truthy(starRule) THEN st
  ELSE IF Nullish(data) THEN TypeError(st)
  ELSE WildcardsFrom(st, hashRule, starRule, data, ObjectKeys(st.h, data), 1,
                     Len(ObjectKeys(st.h, data)),
                     [prefix |-> errorsPrefix, opts |-> opts])

processWildcards(st, workingRules, data, errorsPrefix, opts) ==
  IF st.ex # "" THEN st
  ELSE WildcardsWith(st, Get(st.h, workingRules, "#"), Get(st.h, workingRules, "*"), data,
                     errorsPrefix, opts)

\* rules['@']?.strict ?? options.strictMode, given rules['@']
StrictOf(h, at, opts) ==
  IF at.t # "undefined" /\ Get(h, at, "strict").t # "undefined"
  THEN Truthy(Get(h, at, "strict"))
  ELSE opts.strictMode

\* The strict mode in effect at one level
EffectiveStrict(h, workingRules, opts) == StrictOf(h, Get(h, workingRules, "@"), opts)

\* The keys strict mode admits: the schema's keys but the meta-keys
DefinedKeys(h, workingRules) == Range(ObjectKeys(h, workingRules)) \ META_KEYS

RECURSIVE StrictFrom(_, _, _, _, _, _)
\* The rounds lo..hi of the loop of enforceStrictMode over the data's keys
StrictFrom(st, definedKeys, keys, lo, hi, errorsPrefix) ==
  IF st.ex # "" \/ lo > hi THEN st
  ELSE IF lo < hi
  THEN StrictFrom(StrictFrom(st, definedKeys, keys, lo, (lo + hi) \div 2, errorsPrefix),
                  definedKeys, keys, (lo + hi) \div 2 + 1, hi, errorsPrefix)
  ELSE IF keys[lo] \notin definedKeys
  THEN addError(st, errorsPrefix \o keys[lo], "NOT_ALLOWED", NoParams)
  ELSE st

enforceStrictMode(st, workingRules, data, errorsPrefix, opts) ==
  IF st.ex # "" THEN st
  ELSE IF Get(st.h, workingRules, "@").t = "null" THEN TypeError(st)
  ELSE IF ~EffectiveStrict(st.h, workingRules, opts) THEN st
  ELSE IF Nullish(data) THEN TypeError(st)
  ELSE StrictFrom(st, DefinedKeys(st.h, workingRules), ObjectKeys(st.h, data), 1,
                  Len(ObjectKeys(st.h, data)), errorsPrefix)

\* A named pass that leaves the data without the default
DefaultSkipped(st, data, key, default) == st

\* data[key] = ruleSchema.default for a key the data lacks
DefaultApplied(st, data, key, default) ==
  IF default.t # "undefined" /\ ~HasOwn(st.h, data, key)
  THEN [st EXCEPT !.h = SetProp(st.h, data, key, default)]
  ELSE st

\* A named pass that stops at the first error recorded: a field is looked at
\* only while the errors are empty
FieldCheckedFirstOnly(s, ruleSchema, data, key, errorsKey, opts) ==
  IF Len(s.errors.keys) > 0 THEN s
  ELSE IF HasOwn(s.h, data, key)
  THEN ApplyTransformed(applyRule(s, ruleSchema, Get(s.h, data, key), errorsKey, opts),
                        ruleSchema, data, key)
  ELSE IF Truthy(Get(s.h, ruleSchema, "required"))
  THEN addError(s, errorsKey, "REQUIRED", NoParams)
  ELSE s

\* The rule of a named field applied once its default is in place: to the
\* value when the key is there, a REQUIRED error when it is not and the rule
\* asks for it
FieldChecked(s, ruleSchema, data, key, errorsKey, opts) ==
  IF HasOwn(s.h, data, key)
  THEN ApplyTransformed(applyRule(s, ruleSchema, Get(s.h, data, key), errorsKey, opts),
                        ruleSchema, data, key)
  ELSE IF Truthy(Get(s.h, ruleSchema, "required"))
  THEN addError(s, errorsKey, "REQUIRED", NoParams)
  ELSE s

\* One round of the loop of processNamedRules, for a key that is neither a
\* meta-key nor reserved
NamedRule(st, ruleSchema, data, key, errorsPrefix, opts) ==
  IF Nullish(ruleSchema) THEN TypeError(st)
  ELSE FieldChecked(DefaultApplied(st, data, key, Get(st.h, ruleSchema, "default")),
                    ruleSchema, data, key, errorsPrefix \o key, opts)

\* The rounds lo..hi of the loop of processNamedRules over the schema's keys
NamedRulesFrom(st, workingRules, data, keys, lo, hi, errorsPrefix, opts) ==
  IF st.ex # "" \/ lo > hi THEN st
  ELSE IF lo < hi
  THEN NamedRulesFrom(
         NamedRulesFrom(st, workingRules, data, keys, lo, (lo + hi) \div 2, errorsPrefix, opts),
         workingRules, data, keys, (lo + hi) \div 2 + 1, hi, errorsPrefix, opts)
  ELSE IF keys[lo] \in META_KEYS \/ ~isSafeKey(keys[lo]) THEN st
  ELSE NamedRule(st, Get(st.h, workingRules, keys[lo]), data, keys[lo], errorsPrefix, opts)

processNamedRules(st, workingRules, data, errorsPrefix, opts) ==
  NamedRulesFrom(st, workingRules, data, ObjectKeys(st.h, workingRules), 1,
                 Len(ObjectKeys(st.h, workingRules)), errorsPrefix, opts)

\* For an object, the strict-mode check and the named-field pass
NamedPass(s, rules, input, errorsPrefix, opts) ==
  IF IsArray(s.h, input) THEN s
  ELSE processNamedRules(enforceStrictMode(s, rules, input, errorsPrefix, opts),
                         rules, input, errorsPrefix, opts)

\* A call of processRules enters a frame and leaves it when it returns or
\* throws
Entered(st, opts) ==
  IF opts.internalCall
  THEN [st EXCEPT !.depth = @ + 1,
                  !.metaDeepest = IF st.depth + 1 > @ THEN st.depth + 1 ELSE @]
  ELSE [st EXCEPT !.depth = @ + 1,
                  !.deepest = IF st.depth + 1 > @ THEN st.depth + 1 ELSE @]
Left(st) == [st EXCEPT !.depth = @ - 1]

\* One level with the passes in the other order: the strict-mode check and
\* the named-field pass, then the wildcard and key pass
processRulesNamedFirst(st, rules, input, errorsPrefix, opts) ==
  Left(processWildcards(NamedPass(Entered(st, opts), rules, input, errorsPrefix, opts),
                        rules, input, errorsPrefix, opts))

\* The core of one level: the wildcard and key pass, then the strict-mode
\* check and the named-field pass, all on `input` itself.
processRules(st, rules, input, errorsPrefix, opts) ==
  Left(NamedPass(processWildcards(Entered(st, opts), rules, input, errorsPrefix, opts),
                 rules, input, errorsPrefix, opts))

(***************************************************************************)
(* Cloning and normalization of schemas.                                   *)
(***************************************************************************)
\* A new object: the reference it gets and the state once it is allocated
NextRef(st) == Ref(Len(st.h) + 1)
Allocate(st, cell) == [st EXCEPT !.h = Append(st.h, cell)]
New(st, cell) == Res(Allocate(st, cell), NextRef(st))

\* target[key] = v, for the result r = [st, v] of building v
SetResult(r, target, key) ==
  IF r.st.ex # "" THEN r.st ELSE [r.st EXCEPT !.h = SetProp(r.st.h, target, key, r.v)]

\* [ ...str ]: the array of the characters of a string
CharsCell(str) ==
  Cell("array", [i \in 1..Len(str) |-> ToString(i - 1)],
       [k \in {ToString(i - 1) : i \in 1..Len(str)} |->
          Str(SubSeq(str, (CHOOSE i \in 1..Len(str) : ToString(i - 1) = k),
                     (CHOOSE i \in 1..Len(str) : ToString(i - 1) = k)))])

\* [ ...list ] where the engine copies a list of a rule: a fresh array for
\* an array, the array of its characters for a string, a TypeError for a
\* value that is not iterable.
CopyList(st, list) ==
  IF IsArray(st.h, list) THEN New(st, st.h[list.n])
  ELSE IF list.t = "string" THEN New(st, CharsCell(list.s))
  ELSE Res(TypeError(st), Undef)

\* new RegExp(pattern.source, pattern.flags) for a RegExp, the value itself
\* otherwise
clonePattern(st, pattern) ==
  IF IsRegExp(st.h, pattern)
  THEN New(st, RegExpCell(st.h[pattern.n].f["source"].s, st.h[pattern.n].f["flags"].s))
  ELSE Res(st, pattern)

RECURSIVE deepCloneSchema(_, _)
RECURSIVE deepCloneRuleDef(_, _)
RECURSIVE deepClonePerTypeRuleDef(_, _)
RECURSIVE CloneSchemaFrom(_, _, _, _, _, _)
RECURSIVE ClonePerTypeFrom(_, _, _, _, _, _)

\* if (def.in) clone.in = [...def.in]
CloneIn(s, in, clone) ==
  IF s.ex = "" /\ Truthy(in) THEN SetResult(CopyList(s, in), clone, "in") ELSE s
\* if (Array.isArray(def['in:public'])) clone['in:public'] = [...def['in:public']]
CloneInPublic(s, pub, clone) ==
  IF s.ex = "" /\ IsArray(s.h, pub) THEN SetResult(CopyList(s, pub), clone, "in:public")
  ELSE s
\* if (def.pattern !== undefined) clone.pattern = clonePattern(def.pattern)
ClonePatternOf(s, pattern, clone) ==
  IF s.ex = "" /\ pattern.t # "undefined"
  THEN SetResult(clonePattern(s, pattern), clone, "pattern") ELSE s

\* The attribute copies shared by deepCloneRuleDef and
\* deepClonePerTypeRuleDef: in, in:public, pattern
CloneLists(st, def, clone) ==
  ClonePatternOf(CloneInPublic(CloneIn(st, Get(st.h, def, "in"), clone),
                               Get(st.h, def, "in:public"), clone),
                 Get(st.h, def, "pattern"), clone)

\* children: a deep clone of the nested schema, when there is one
CloneChildren(st, def, clone) ==
  IF st.ex = "" /\ Truthy(Get(st.h, def, "children"))
  THEN SetResult(deepCloneSchema(st, Get(st.h, def, "children")), clone, "children")
  ELSE st

deepClonePerTypeRuleDef(st, def) ==
  IF Nullish(def) THEN Res(TypeError(st), Undef)
  ELSE Res(CloneChildren(CloneLists(Allocate(st, Spread(st.h, def)), def, NextRef(st)),
                         def, NextRef(st)),
           NextRef(st))

\* The rounds lo..hi of the loop over the types of per_type
ClonePerTypeFrom(st, per_type, target, keys, lo, hi) ==
  IF st.ex # "" \/ lo > hi THEN st
  ELSE IF lo < hi
  THEN ClonePerTypeFrom(ClonePerTypeFrom(st, per_type, target, keys, lo, (lo + hi) \div 2),
                        per_type, target, keys, (lo + hi) \div 2 + 1, hi)
  ELSE SetResult(deepClonePerTypeRuleDef(st, Get(st.h, per_type, keys[lo])), target, keys[lo])

\* if (Array.isArray(def.type)) clone.type = [...def.type]
CloneType(s, type, clone) ==
  IF IsArray(s.h, type) THEN SetResult(CopyList(s, type), clone, "type") ELSE s

\* if (def.per_type) clone.per_type = {}, filled type by type
ClonePerType(s, per_type, clone) ==
  IF s.ex = "" /\ Truthy(per_type)
  THEN ClonePerTypeFrom([s EXCEPT !.h = SetProp(Append(s.h, EmptyObject), clone,
                                                "per_type", NextRef(s))],
                        per_type, NextRef(s), ObjectKeys(s.h, per_type), 1,
                        Len(ObjectKeys(s.h, per_type)))
  ELSE s

\* The clone of a rule is a spread of it with its lists, per_type and
\* children cloned; every other attribute, default among them, is shared
\* with the rule.
deepCloneRuleDef(st, def) ==
  IF Nullish(def) THEN Res(TypeError(st), Undef)
  ELSE Res(CloneChildren(
             ClonePerType(
               CloneLists(CloneType(Allocate(st, Spread(st.h, def)), Get(st.h, def, "type"),
                                    NextRef(st)),
                          def, NextRef(st)),
               Get(st.h, def, "per_type"), NextRef(st)),
             def, NextRef(st)),
           NextRef(st))

\* The rounds lo..hi of the loop of deepCloneSchema over the schema's keys
CloneSchemaFrom(st, schema, clone, keys, lo, hi) ==
  IF st.ex # "" \/ lo > hi THEN st
  ELSE IF lo < hi
  THEN CloneSchemaFrom(CloneSchemaFrom(st, schema, clone, keys, lo, (lo + hi) \div 2),
                       schema, clone, keys, (lo + hi) \div 2 + 1, hi)
  ELSE IF keys[lo] = "@"
  THEN SetResult(New(st, Spread(st.h, Get(st.h, schema, "@"))), clone, "@")
  ELSE SetResult(deepCloneRuleDef(st, Get(st.h, schema, keys[lo])), clone, keys[lo])

deepCloneSchema(st, schema) ==
  IF st.ex # "" THEN Res(st, Undef)
  ELSE IF Nullish(schema) THEN Res(TypeError(st), Undef)
  ELSE Res(CloneSchemaFrom(Allocate(st, EmptyObject), schema, NextRef(st),
                           ObjectKeys(st.h, schema), 1, Len(ObjectKeys(st.h, schema))),
           NextRef(st))

RECURSIVE normalizeRule(_, _)
RECURSIVE normalizeSchema(_, _)
RECURSIVE NormalizePerTypeFrom(_, _, _, _, _)
RECURSIVE NormalizeSchemaFrom(_, _, _, _, _)

\* A rewrite that pushes "integer" onto every list that holds "number",
\* whether the list has it or not
TypeListedAgain(s, list) ==
  IF ~IsArray(s.h, list) THEN TypeError(s)
  ELSE IF Includes(s.h, list, Str("number"))
  THEN [s EXCEPT !.h = SetProp(s.h, list, ToString(ArrayLen(s.h, list)), Str("integer"))]
  ELSE s

\* The list rule.type holds: "integer" pushed onto a list that holds
\* "number" without it
TypeListed(s, list) ==
  IF ~IsArray(s.h, list) THEN TypeError(s)
  ELSE IF Includes(s.h, list, Str("number")) /\ ~Includes(s.h, list, Str("integer"))
  THEN [s EXCEPT !.h = SetProp(s.h, list, ToString(ArrayLen(s.h, list)), Str("integer"))]
  ELSE s

\* rule.type, an own key holding `type`, rewritten in place: null for a
\* falsy value, a list for a bare name
TypeRewritten(st, rule, type) ==
  IF ~Truthy(type) THEN [st EXCEPT !.h = SetProp(st.h, rule, "type", Null)]
  ELSE IF IsRef(type) THEN TypeListed(st, type)
  ELSE TypeListed([st EXCEPT !.h = SetProp(Append(st.h, Cell("array", <<"0">>, "0" :> type)),
                                           rule, "type", NextRef(st))],
                  NextRef(st))

NormalizeType(st, rule) ==
  IF ~HasOwn(st.h, rule, "type") THEN st
  ELSE TypeRewritten(st, rule, Get(st.h, rule, "type"))

\* A normalization that does not descend into per_type
PerTypeLeftAlone(s, per_type) == s

\* The rounds lo..hi of the loop over Object.values(rule.per_type)
NormalizePerTypeFrom(st, per_type, keys, lo, hi) ==
  IF st.ex # "" \/ lo > hi THEN st
  ELSE IF lo < hi
  THEN NormalizePerTypeFrom(NormalizePerTypeFrom(st, per_type, keys, lo, (lo + hi) \div 2),
                            per_type, keys, (lo + hi) \div 2 + 1, hi)
  ELSE normalizeRule(st, Get(st.h, per_type, keys[lo]))

\* if (rule.per_type) every override normalized
NormalizePerType(s, per_type) ==
  IF s.ex = "" /\ Truthy(per_type)
  THEN NormalizePerTypeFrom(s, per_type, ObjectKeys(s.h, per_type), 1,
                            Len(ObjectKeys(s.h, per_type)))
  ELSE s

\* if (rule.children) normalizeSchema(rule.children)
NormalizeChildren(s, children) ==
  IF s.ex = "" /\ Truthy(children) THEN normalizeSchema(s, children) ELSE s

normalizeRule(st, rule) ==
  IF st.ex # "" \/ ~IsRef(rule) THEN st
  ELSE NormalizeChildren(NormalizePerType(NormalizeType(st, rule),
                                          Get(st.h, rule, "per_type")),
                         Get(st.h, rule, "children"))

\* The rounds lo..hi of the loop of normalizeSchema over the schema's keys
NormalizeSchemaFrom(st, schema, keys, lo, hi) ==
  IF st.ex # "" \/ lo > hi THEN st
  ELSE IF lo < hi
  THEN NormalizeSchemaFrom(NormalizeSchemaFrom(st, schema, keys, lo, (lo + hi) \div 2),
                           schema, keys, (lo + hi) \div 2 + 1, hi)
  ELSE IF keys[lo] = "@" THEN st
  ELSE normalizeRule(st, Get(st.h, schema, keys[lo]))

normalizeSchema(st, schema) ==
  NormalizeSchemaFrom(st, schema, ObjectKeys(st.h, schema), 1, Len(ObjectKeys(st.h, schema)))

\* The clone c = [st, v] normalized in place
NormalizedClone(c) == Res(normalizeSchema(c.st, c.v), c.v)

\* ODVRules.normalize: a deep clone of the schema, normalized in place
normalize(st, rules) == NormalizedClone(deepCloneSchema(st, rules))

(***************************************************************************)
(* The meta-schemas, written as literals.                                  *)
(***************************************************************************)
VALUE_TYPES ==
  <<"string", "number", "integer", "array", "object", "boolean", "function", "null">>
SPECIAL_NAMES ==
  <<"email", "phone", "us-phone", "url", "uuid", "ipv4", "date", "datetime", "hex-color">>
TypeOnly(names) == Obj(<< <<"type", StrList(names)>> >>)
ClosedSet(type, names) ==
  Obj(<< <<"type", type>>, <<"in", StrList(names)>>, <<"in:public", LBool(TRUE)>> >>)

PER_TYPE_ATTRIBUTES ==
  << <<"in", TypeOnly(<<"array">>)>>,
     <<"in:public", TypeOnly(<<"array", "boolean">>)>>,
     <<"min", TypeOnly(<<"number">>)>>,
     <<"max", TypeOnly(<<"number">>)>>,
     <<"pattern", TypeOnly(<<"object", "string">>)>>,
     <<"special", ClosedSet(StrList(<<"string">>), SPECIAL_NAMES)>>,
     <<"transform", TypeOnly(<<"function">>)>>,
     <<"apply_transformed", TypeOnly(<<"boolean">>)>>,
     <<"children", TypeOnly(<<"object">>)>> >>

RULE_ATTRIBUTES ==
  << <<"@", Obj(<< <<"strict", LBool(TRUE)>> >>)>>,
     <<"type", ClosedSet(StrList(<<"array">>), VALUE_TYPES)>>,
     <<"per_type",
       Obj(<< <<"#", ClosedSet(LStr("string"), VALUE_TYPES)>>,
              <<"*", Obj(<< <<"type", LStr("object")>>,
                            <<"children", Obj(PER_TYPE_ATTRIBUTES)>> >>)>> >>)>>,
     <<"in", TypeOnly(<<"array">>)>>,
     <<"in:public", TypeOnly(<<"array", "boolean">>)>>,
     <<"min", TypeOnly(<<"number">>)>>,
     <<"max", TypeOnly(<<"number">>)>>,
     <<"required", TypeOnly(<<"boolean">>)>>,
     <<"pattern", TypeOnly(<<"object", "string">>)>>,
     <<"special", ClosedSet(StrList(<<"string">>), SPECIAL_NAMES)>>,
     <<"transform", TypeOnly(<<"function">>)>>,
     <<"apply_transformed", TypeOnly(<<"boolean">>)>>,
     <<"default", Obj(<<>>)>>,
     <<"children", TypeOnly(<<"object">>)>> >>

RULES_SCHEMA_TREE ==
  Obj(<< <<"@", Obj(<< <<"strict", LBool(FALSE)>> >>)>>,
         <<"#", Obj(<< <<"type", LStr("string")>> >>)>>,
         <<"*", Obj(<< <<"type", LStr("object")>>,
                       <<"children", Obj(RULE_ATTRIBUTES)>> >>)>> >>)

RULES_OPTIONS_SCHEMA_TREE ==
  Obj(<< <<"strict", TypeOnly(<<"boolean">>)>> >>)

\* The module-level constants: the cells of RULES_SCHEMA and
\* RULES_OPTIONS_SCHEMA, at the bottom of every heap.
MetaAlloc == Alloc(<<>>, RULES_SCHEMA_TREE)
OptionsAlloc == Alloc(MetaAlloc.h, RULES_OPTIONS_SCHEMA_TREE)
RULES_SCHEMA == MetaAlloc.v
RULES_OPTIONS_SCHEMA == OptionsAlloc.v
BaseHeap == OptionsAlloc.h

(***************************************************************************)
(* ODVRules and ODVValidator.  An ODVRules instance is a record            *)
(* [schema, normalizedSchema, validated, broken]; broken marks an instance *)
(* whose constructor threw.  Options are [strictMode, exceptionMode,       *)
(* internalCall].                                                          *)
(***************************************************************************)
DEFAULT_OPTIONS == [strictMode |-> TRUE, exceptionMode |-> TRUE, internalCall |-> FALSE]
Options(strictMode, exceptionMode) ==
  [DEFAULT_OPTIONS EXCEPT !.strictMode = strictMode, !.exceptionMode = exceptionMode]
\* ODVValidator.createInternal
createInternal(strictMode) ==
  [DEFAULT_OPTIONS EXCEPT !.strictMode = strictMode, !.internalCall = TRUE]

\* The instance whose normalizedSchema is the result n = [st, v] of normalize
RulesOf(schema, n) ==
  Res(n.st, [schema |-> schema, normalizedSchema |-> n.v, validated |-> FALSE,
             broken |-> n.st.ex # ""])

\* new ODVRules(schema): [st, v] with v the instance
ODVRules(st, schema) == RulesOf(schema, normalize(st, schema))

\* The outcome of one ODVValidator.validate call:
\*   st         the state, with the validator's errors and the exception
\*   data       the validator's data afterwards (null when it threw early)
\*   ret        what validate returned, when it returned
\*   validated  the ODVRules instance's marker afterwards
Outcome(st, data, ret, validated) ==
  [st |-> st, data |-> data, ret |-> ret, validated |-> validated]

RECURSIVE RulesValidate(_, _)
RECURSIVE ValidatorValidate(_, _, _, _, _)

\* The data the walk mutates: the input itself for an internal call, a
\* shallow copy of it otherwise.  [st, v]
WorkingData(st, input, opts) ==
  IF opts.internalCall THEN Res(st, input) ELSE New(st, Spread(st.h, input))

\* The end of validate once the walk left state s over data: a throw of the
\* walk goes on, a non-empty ErrorsMap is a failure, an empty one a success
Verdict(s, data, opts, validated) ==
  IF s.ex # "" THEN Outcome(s, Null, Undef, validated)
  ELSE IF Len(s.errors.keys) > 0
  THEN IF opts.exceptionMode
       THEN Outcome(Throw(s, "ODVException", s.errors), data, Undef, validated)
       ELSE Outcome(s, data, Bool(FALSE), validated)
  ELSE Outcome(s, data, Bool(TRUE), validated)

\* validate from the walk on, over the working data d = [st, v]
Walk(d, rules, opts, errorsPrefix, validated) ==
  Verdict(processRules(d.st, rules.normalizedSchema, d.v, errorsPrefix, opts), d.v, opts,
          validated)

\* A validator that checks the schema on every call, marker or not
BootsEveryCall(rules, opts) == ~opts.internalCall

\* Whether validate checks the schema first: not for an internal call, and
\* once for an ODVRules instance
Boots(rules, opts) == ~opts.internalCall /\ ~rules.validated

\* ODVRules.validate(this.rules.normalizedSchema) when validate asks for it
SchemaChecked(st, rules, opts) ==
  IF Boots(rules, opts) THEN RulesValidate(st, rules.normalizedSchema) ELSE st

\* A validate that marks the instance before the schema check: the marker
\* is set whether the check threw or not
AfterSchemaCheckMarked(s, rules, opts, input, errorsPrefix) ==
  IF s.ex # "" THEN Outcome(s, Null, Undef, rules.validated \/ Boots(rules, opts))
  ELSE Walk(WorkingData(s, input, opts), rules, opts, errorsPrefix,
            rules.validated \/ Boots(rules, opts))

\* validate once the schema check left state s: a throw of the check leaves
\* the instance unmarked
AfterSchemaCheck(s, rules, opts, input, errorsPrefix) ==
  IF s.ex # "" THEN Outcome(s, Null, Undef, rules.validated)
  ELSE Walk(WorkingData(s, input, opts), rules, opts, errorsPrefix,
            rules.validated \/ Boots(rules, opts))

\* A validate that keeps what the validator held
NoReset(st) == st

\* this.errors = {}; this._processedData = null
Reset(st) == [st EXCEPT !.errors = NoErrors]

\* ODVValidator.validate: the errors reset, the schema checked once against
\* the meta-schema, the walk over the working data, and the verdict
ValidatorValidate(st, rules, opts, input, errorsPrefix) ==
  AfterSchemaCheck(SchemaChecked(Reset(st), rules, opts), rules, opts, input, errorsPrefix)

\* The catch block of ODVRules.validate: whatever was thrown is thrown again
\* as an ODVRulesException carrying its details.  `errors` is the ErrorsMap
\* of the validator that asked for the check, which the internal validator
\* does not touch.
Rethrown(s, errors) ==
  IF s.ex # "" THEN [s EXCEPT !.ex = "ODVRulesException", !.errors = errors]
  ELSE [s EXCEPT !.errors = errors]

\* An internal validator that is not marked internal while fewer than two
\* schema checks have begun: its validate checks the meta-schema in turn
InternalValidateReentering(r, strictMode, value) ==
  IF r.st.ex # "" THEN r.st
  ELSE IF r.st.boots < 2
  THEN ValidatorValidate(r.st, r.v, [createInternal(strictMode) EXCEPT !.internalCall = FALSE],
                         value, "").st
  ELSE ValidatorValidate(r.st, r.v, createInternal(strictMode), value, "").st

\* validator.validate(value) on an internal validator over the rules
\* r = [st, v]
InternalValidate(r, strictMode, value) ==
  IF r.st.ex # "" THEN r.st
  ELSE ValidatorValidate(r.st, r.v, createInternal(strictMode), value, "").st

\* One try block of ODVRules.validate: the value checked against a
\* meta-schema by an internal validator of its own
MetaCheck(st, metaSchema, strictMode, value) ==
  Rethrown(InternalValidate(ODVRules(st, metaSchema), strictMode, value), st.errors)

\* clonedRules[to] = clonedRules[from]; delete clonedRules[from]
MoveKey(cell, from, to) ==
  IF from \in DOMAIN cell.f THEN CellDelete(CellSet(cell, to, cell.f[from]), from) ELSE cell

\* { ...rules } with the wildcard keys renamed
ClonedRules(h, rules) == MoveKey(MoveKey(Spread(h, rules), "#", ">>>#"), "*", ">>>*")

\* The check of clonedRules['@'] against RULES_OPTIONS_SCHEMA
OptionsChecked(s, clonedRules) ==
  IF HasOwn(s.h, clonedRules, "@")
  THEN MetaCheck(s, RULES_OPTIONS_SCHEMA, TRUE, Get(s.h, clonedRules, "@"))
  ELSE s

\* delete clonedRules['@'], then the check of clonedRules against RULES_SCHEMA
RulesChecked(s, clonedRules) ==
  IF s.ex # "" THEN s
  ELSE MetaCheck([s EXCEPT !.h[clonedRules.n] = CellDelete(@, "@")], RULES_SCHEMA, FALSE,
                 clonedRules)

\* ODVRules.validate (static)
RulesValidate(st, rules) ==
  IF st.ex # "" THEN st
  ELSE RulesChecked(OptionsChecked(Allocate([st EXCEPT !.boots = @ + 1],
                                            ClonedRules(st.h, rules)), NextRef(st)),
                    NextRef(st))

RECURSIVE validateSchemaRecursive(_, _)
RECURSIVE ChildrenValidatedFrom(_, _, _, _)

\* Whether the loop of validateSchemaRecursive descends under a key: the
\* rule is an object and its children are neither undefined nor other than
\* an object (typeof null is 'object')
DescendsUnder(h, rule) ==
  /\ Truthy(rule) /\ IsObjectLike(rule)
  /\ Get(h, rule, "children").t # "undefined"
  /\ IsObjectLike(Get(h, rule, "children"))

\* The rounds i.. of the loop of validateSchemaRecursive over the keys of
\* the schema
ChildrenValidatedFrom(st, schema, keys, i) ==
  IF st.ex # "" \/ i > Len(keys) THEN st
  ELSE IF keys[i] # "@" /\ DescendsUnder(st.h, Get(st.h, schema, keys[i]))
  THEN ChildrenValidatedFrom(
         validateSchemaRecursive(st, Get(st.h, Get(st.h, schema, keys[i]), "children")),
         schema, keys, i + 1)
  ELSE ChildrenValidatedFrom(st, schema, keys, i + 1)

\* Object.keys(schema), which throws for null, and the loop over them, once
\* ODVRules.validate left state s
ChildrenValidated(s, schema) ==
  IF s.ex # "" THEN s
  ELSE IF Nullish(schema) THEN TypeError(s)
  ELSE ChildrenValidatedFrom(s, schema, ObjectKeys(s.h, schema), 1)

\* validateSchemaRecursive: ODVRules.validate on the schema as given, then
\* on the children of each of its rules
validateSchemaRecursive(st, schema) ==
  ChildrenValidated(RulesValidate(st, schema), schema)

\* validateSchema(json): [st, v] with v the argument itself
validateSchema(st, json) == Res(validateSchemaRecursive(st, json), json)

(***************************************************************************)
(* Entry points.  Each returns [st, kind, value, validated]:               *)
(*   kind   "return" or "throw"                                            *)
(*   value  what is returned: a value, or for safeParse the pair           *)
(*          [success, data]; errors and exception are read from st         *)
(***************************************************************************)
Call(st, kind, value, validated) ==
  [st |-> st, kind |-> kind, value |-> value, validated |-> validated]

\* What a caller passes as the schema argument of parse and safeParse: a
\* plain schema, or an ODVRules instance.
PlainSchema(schema) == [isRules |-> FALSE, schema |-> schema, rules |-> <<>>]
RulesInstance(rules) == [isRules |-> TRUE, schema |-> rules.schema, rules |-> rules]

\* schema instanceof ODVRules ? schema : new ODVRules(schema)
RulesOfSource(st, source) ==
  IF source.isRules THEN Res(st, source.rules) ELSE ODVRules(st, source.schema)

\* new ODVValidator(validatorRules, options).validate(input, errorsPrefix),
\* for the rules r = [st, v] just obtained
ValidateWith(r, opts, input, errorsPrefix) ==
  IF r.st.ex # "" THEN Outcome(r.st, Null, Undef, FALSE)
  ELSE ValidatorValidate(r.st, r.v, opts, input, errorsPrefix)

\* return validator.data
ParseReturned(o) ==
  IF o.st.ex # "" THEN Call(o.st, "throw", Undef, o.validated)
  ELSE Call(o.st, "return", o.data, o.validated)

\* parse(schema, input, options, errorsPrefix)
parse(st, source, input, strictMode, errorsPrefix) ==
  ParseReturned(ValidateWith(RulesOfSource(st, source), Options(strictMode, TRUE), input,
                             errorsPrefix))

\* e instanceof cls: ODVRulesException extends ODVException
InstanceOf(ex, cls) ==
  ex = cls \/ (ex = "ODVRulesException" /\ cls = "ODVException")

\* The two results of safeParse
Success(data) == [success |-> TRUE, data |-> data]
Failure == [success |-> FALSE, data |-> Undef]

\* A catch block that tests for the base class first: every ODVException,
\* the ODVRulesException among them, becomes a failure result
CatchBaseFirst(p) ==
  IF InstanceOf(p.st.ex, "ODVException")
  THEN Call([p.st EXCEPT !.ex = ""], "return", Failure, p.validated)
  ELSE p

\* The catch block of safeParse, for the exception parse left in flight
Catch(p) ==
  IF InstanceOf(p.st.ex, "ODVRulesException") THEN p
  ELSE IF InstanceOf(p.st.ex, "ODVException")
  THEN Call([p.st EXCEPT !.ex = ""], "return", Failure, p.validated)
  ELSE p

\* The try block of safeParse around the result p of parse
Tried(p) ==
  IF p.kind = "return" THEN Call(p.st, "return", Success(p.value), p.validated)
  ELSE Catch(p)

\* safeParse(schema, input, options, errorsPrefix); the errors of a failure
\* are the details of the exception caught, left in st.details
safeParse(st, source, input, strictMode, errorsPrefix) ==
  Tried(parse(st, source, input, strictMode, errorsPrefix))

\* if (result === false) return false; return validator.data
ValidateReturned(o) ==
  IF o.st.ex # "" THEN Call(o.st, "throw", Undef, o.validated)
  ELSE IF o.ret = Bool(FALSE) THEN Call(o.st, "return", o.ret, o.validated)
  ELSE Call(o.st, "return", o.data, o.validated)

\* validate(rules, input, options), the standalone function
validate(st, schema, input, strictMode, exceptionMode, errorsPrefix) ==
  ValidateReturned(ValidateWith(ODVRules(st, schema), Options(strictMode, exceptionMode),
                                input, errorsPrefix))


(***************************************************************************)
(* The program around the engine: a caller that holds one schema and a few *)
(* input objects, one ODVRules instance built from the schema, one         *)
(* ODVValidator over that instance for each exception mode, and the calls  *)
(* the caller makes.                                                       *)
(***************************************************************************)
VARIABLES
  heap,          \* the cells of every object alive
  patternCache,  \* the sources compiled into the module-level patternCache
  caller,        \* the caller's schema, inputs, strictMode option and errors prefix
  rules,         \* the shared ODVRules instance
  validators,    \* exceptionMode -> [errors, data] of the ODVValidator
  calls,         \* the number of calls made
  last,          \* what the last call was given and what it produced
  prev           \* the same for the call before it

vars == <<heap, patternCache, caller, rules, validators, calls, last, prev>>

\* The number of calls of one behaviour
MaxCalls == 2

RECURSIVE AllocSeq(_, _, _, _)
AllocSeq(h, trees, i, refs) ==
  IF i > Len(trees) THEN [h |-> h, refs |-> refs]
  ELSE LET a == Alloc(h, trees[i]) IN AllocSeq(a.h, trees, i + 1, Append(refs, a.v))

\* An ErrorsMap as a value: the params read out of the heap
FreezeErrors(h, errors) ==
  [keys |-> errors.keys,
   f |-> [k \in DOMAIN errors.f |->
            [j \in 1..Len(errors.f[k]) |->
               [code |-> errors.f[k][j].code,
                params |-> [q \in DOMAIN errors.f[k][j].params |->
                              Freeze(h, errors.f[k][j].params[q])]]]]]

NoCall == [op |-> "none"]

\* A scenario is [schema, inputs, strictMode, prefix]: the trees of the
\* caller's schema and inputs and the options the caller passes.
InitWith(scenarios) ==
  \E sc \in scenarios :
    LET a == Alloc(BaseHeap, sc.schema)
        b == AllocSeq(a.h, sc.inputs, 1, <<>>)
        r == ODVRules(St(b.h, {}), a.v)
    IN /\ heap = r.st.h
       /\ patternCache = {}
       /\ caller = [schema |-> a.v, inputs |-> b.refs, strictMode |-> sc.strictMode,
                    prefix |-> sc.prefix, schema0 |-> sc.schema, inputs0 |-> sc.inputs]
       /\ rules = r.v
       /\ validators = [e \in BOOLEAN |-> [errors |-> NoErrors, data |-> Null]]
       /\ calls = 0
       /\ last = NoCall
       /\ prev = NoCall

\* The record of a call: its operation and arguments, the caller's schema
\* and input as they were when it started, and what it produced; boots is
\* the number of schema checks it ran, validatedBefore the marker of the
\* shared ODVRules instance when it started.
Record(op, arg, i, c, data) ==
  [op |-> op, arg |-> arg, i |-> i,
   schemaBefore |-> Freeze(heap, caller.schema),
   inputBefore |-> Freeze(heap, caller.inputs[i]),
   kind |-> c.kind,
   ex |-> c.st.ex,
   value |-> IF op = "safeParse" /\ c.kind = "return"
             THEN [success |-> c.value.success, data |-> Freeze(c.st.h, c.value.data)]
             ELSE Freeze(c.st.h, c.value),
   errors |-> FreezeErrors(c.st.h, c.st.errors),
   details |-> FreezeErrors(c.st.h, c.st.details),
   data |-> Freeze(c.st.h, data),
   boots |-> c.st.boots,
   deepest |-> c.st.deepest,
   metaDeepest |-> c.st.metaDeepest,
   validatedBefore |-> rules.validated]

\* What every call leaves behind, given its result c and the data it produced
Made(op, arg, i, c, data) ==
  /\ heap' = c.st.h
  /\ patternCache' = c.st.cache
  /\ calls' = calls + 1
  /\ prev' = last
  /\ last' = Record(op, arg, i, c, data)
  /\ UNCHANGED caller

Start == St(heap, patternCache)

\* The data a call handed back to the caller
DataOf(op, c) ==
  CASE c.kind # "return" -> Null
    [] op = "safeParse" -> IF c.value.success THEN c.value.data ELSE Null
    [] op = "validate" -> IF c.value = Bool(FALSE) THEN Null ELSE c.value
    [] OTHER -> c.value

\* The end of validator.validate with outcome o
ValidatorValidated(exceptionMode, i, o) ==
  /\ Made("ODVValidator.validate", exceptionMode, i,
          Call(o.st, IF o.st.ex # "" THEN "throw" ELSE "return", o.ret, o.validated), o.data)
  /\ validators' = [validators EXCEPT ![exceptionMode] =
                      [errors |-> o.st.errors, data |-> o.data]]
  /\ rules' = [rules EXCEPT !.validated = o.validated]

\* validator.validate(input, prefix) on the shared validator with the given
\* exception mode, which enters the call holding the errors of its last one
ValidatorValidateCall(exceptionMode, i) ==
  /\ calls < MaxCalls
  /\ ~rules.broken
  /\ ValidatorValidated(exceptionMode, i,
       ValidatorValidate([Start EXCEPT !.errors = validators[exceptionMode].errors], rules,
                         Options(caller.strictMode, exceptionMode),
                         caller.inputs[i], caller.prefix))

\* The schema argument of parse and safeParse
Source(shared) == IF shared THEN RulesInstance(rules) ELSE PlainSchema(caller.schema)

\* The end of parse or safeParse with result c
Parsed(op, shared, i, c) ==
  /\ Made(op, shared, i, c, DataOf(op, c))
  /\ rules' = IF shared THEN [rules EXCEPT !.validated = c.validated] ELSE rules
  /\ UNCHANGED validators

\* parse(schema or rules, input, { strictMode }, prefix)
ParseCall(shared, i) ==
  /\ calls < MaxCalls
  /\ shared => ~rules.broken
  /\ Parsed("parse", shared, i,
            parse(Start, Source(shared), caller.inputs[i], caller.strictMode, caller.prefix))

\* safeParse(schema or rules, input, { strictMode }, prefix)
SafeParseCall(shared, i) ==
  /\ calls < MaxCalls
  /\ shared => ~rules.broken
  /\ Parsed("safeParse", shared, i,
            safeParse(Start, Source(shared), caller.inputs[i], caller.strictMode,
                      caller.prefix))

\* The end of the standalone validate with result c
Validated(exceptionMode, i, c) ==
  /\ Made("validate", exceptionMode, i, c, DataOf("validate", c))
  /\ UNCHANGED <<rules, validators>>

\* validate(schema, input, { strict, exception, errorsPrefix })
ValidateCall(exceptionMode, i) ==
  /\ calls < MaxCalls
  /\ Validated(exceptionMode, i,
               validate(Start, caller.schema, caller.inputs[i], caller.strictMode,
                        exceptionMode, caller.prefix))

Next ==
  \/ \E b \in BOOLEAN : \E i \in 1..Len(caller.inputs) : ValidatorValidateCall(b, i)
  \/ \E b \in BOOLEAN : \E i \in 1..Len(caller.inputs) : ParseCall(b, i)
  \/ \E b \in BOOLEAN : \E i \in 1..Len(caller.inputs) : SafeParseCall(b, i)
  \/ \E b \in BOOLEAN : \E i \in 1..Len(caller.inputs) : ValidateCall(b, i)

(***************************************************************************)
(* The schemas and inputs the caller is given.                             *)
(***************************************************************************)
Sc(schema, inputs, strictMode, prefix) ==
  [schema |-> schema, inputs |-> inputs, strictMode |-> strictMode, prefix |-> prefix]

Rule(pairs) == Obj(pairs)
Required == <<"required", LBool(TRUE)>>
Type(name) == <<"type", LStr(name)>>
Types(names) == <<"type", StrList(names)>>

Field(name, attrs) == <<name, Rule(attrs)>>
Default(tree) == <<"default", tree>>
Children(fields) == <<"children", Obj(fields)>>
Min(i) == <<"min", LInt(i)>>
In(names) == <<"in", StrList(names)>>
Pattern(tree) == <<"pattern", tree>>
Special(name) == <<"special", LStr(name)>>
Transform(name) == <<"transform", LFn(name)>>
WriteBack == <<"apply_transformed", LBool(TRUE)>>
Strict(b) == <<"@", Obj(<< <<"strict", LBool(b)>> >>)>>
PerType(name, attrs) == <<"per_type", Obj(<< <<name, Obj(attrs)>> >>)>>
\* One schema, one input object, no errors prefix
One(fields, input, strictMode) == Sc(Obj(fields), << Obj(input) >>, strictMode, "")

BasicScenarios ==
  { One(<< Field("name", <<Type("string"), Required>>) >>, << <<"name", LStr("abc")>> >>, TRUE),
    One(<< Field("name", <<Type("string"), Required>>) >>, <<>>, TRUE),
    One(<< Field("name", <<Type("string")>>) >>,
        << <<"name", LStr("abc")>>, <<"extra", LInt(1)>> >>, TRUE),
    One(<< Field("name", <<Type("string")>>) >>,
        << <<"name", LStr("abc")>>, <<"extra", LInt(1)>> >>, FALSE) }

\* Nested data: defaults and written-back transforms below the top level
NestedScenarios ==
  { One(<< Field("u", <<Type("object"),
                        Children(<< Field("x", <<Type("string"), Default(LStr("d"))>>) >>)>>) >>,
        << <<"u", Obj(<<>>)>> >>, TRUE),
    One(<< Field("u", <<Type("object"),
                        Children(<< Field("n", <<Type("integer"), Transform("parseInt"),
                                                 WriteBack>>) >>)>>) >>,
        << <<"u", Obj(<< <<"n", LStr("42")>> >>)>> >>, TRUE),
    One(<< Field("a", <<Type("string")>>),
           Field("b", <<Type("string"), Default(LStr("added"))>>),
           Field("n", <<Type("integer"), Transform("parseInt"), WriteBack>>) >>,
        << <<"a", LStr("x")>>, <<"n", LStr("42")>> >>, TRUE),
    One(<< Field("list", <<Type("array"),
                           Children(<< <<"*", Rule(<<Type("integer"), Transform("inc"),
                                                     WriteBack>>)>> >>)>>) >>,
        << <<"list", Arr(<<LInt(1), LInt(2)>>)>> >>, TRUE) }

\* Defaults, required and optional fields
DefaultScenarios ==
  { One(<< Field("cfg", <<Type("object"), Default(Obj(<<>>)),
                          Children(<< Field("x", <<Default(LInt(1))>>) >>)>>) >>,
        <<>>, TRUE),
    One(<< Field("n", <<Type("integer"), Default(LStr("x"))>>) >>, <<>>, TRUE),
    One(<< Field("a", <<Type("string"), Required>>), Field("b", <<Type("string")>>),
           Field("c", <<Type("integer"), Required>>),
           Field("d", <<Type("integer"), Default(LStr("x"))>>) >>,
        << <<"c", LInt(5)>> >>, TRUE) }

\* Patterns: a RegExp with the g flag, a RegExp without, a source string
PatternScenarios ==
  { One(<< Field("val", <<Type("string"), Pattern(LRegExp("^[a-z]+$", "g"))>>) >>,
        << <<"val", LStr("abc")>> >>, TRUE),
    One(<< Field("val", <<Type("string"), Pattern(LRegExp("^[a-z]+$", ""))>>) >>,
        << <<"val", LStr("abc")>> >>, TRUE),
    One(<< Field("val", <<Type("string"), Pattern(LStr("^[0-9]+$"))>>) >>,
        << <<"val", LStr("abc")>> >>, TRUE) }

\* Schemas that are wrong: for the meta-schema, or for the value they meet
SchemaErrorScenarios ==
  { One(<< Field("val", <<Type("bogus")>>) >>, << <<"val", LStr("abc")>> >>, FALSE),
    One(<< <<"@", Obj(<< <<"strict", LStr("yes")>> >>)>>, Field("name", <<Type("string")>>) >>,
        << <<"name", LStr("abc")>> >>, TRUE),
    One(<< Field("a", <<Type("string"), Required>>), Field("flag", <<Type("boolean"), Min(1)>>) >>,
        << <<"flag", LBool(TRUE)>> >>, TRUE),
    One(<< Field("o", <<Type("object"), In(<<"a">>)>>) >>, << <<"o", Obj(<<>>)>> >>, TRUE),
    One(<< Field("s", <<Children(<< Field("x", <<>>) >>)>>) >>, << <<"s", LStr("abc")>> >>,
        TRUE) }
\* Several failures in one call, on several fields and on one field
Checked == <<Type("string"), Min(5), In(<<"hello">>), Pattern(LStr("^[0-9]+$"))>>
FailureScenarios ==
  { One(<< Field("a", <<Type("string"), Required>>), Field("b", <<Type("integer"), Min(5)>>),
           Field("c", <<Type("string")>>),
           Field("u", <<Type("object"),
                        Children(<< Field("x", <<Type("string"), Required>>) >>)>>) >>,
        << <<"b", LInt(1)>>, <<"c", LInt(2)>>, <<"u", Obj(<< <<"y", LInt(1)>> >>)>>,
           <<"extra", LInt(1)>> >>, TRUE),
    One(<< Field("v", Checked), Field("w", Checked \o <<Special("email")>>) >>,
        << <<"v", LInt(7)>>, <<"w", LStr("abc")>> >>, TRUE),
    One(<< Field("l", <<Type("array"), Min(3),
                        Children(<< <<"*", Rule(<<Type("integer")>>)>> >>)>>) >>,
        << <<"l", Arr(<<LInt(1), LStr("a")>>)>> >>, TRUE),
    Sc(Obj(<< Field("v", <<Type("integer"), Transform("parseInt"), Min(50)>>) >>),
       << Obj(<< <<"v", LStr("42")>> >>), Obj(<< <<"v", LStr("abc")>> >>) >>, TRUE, ""),
    One(<< Field("v", <<Types(<<"string", "null">>), Min(5)>>) >>, << <<"v", LNull>> >>, TRUE),
    One(<< Field("v", <<Types(<<"string", "integer">>), Min(2),
                        PerType("string", <<Min(5)>>)>>) >>,
        << <<"v", LStr("abc")>> >>, TRUE) }

\* Strict mode: the option, its override by '@' at the top and below it, a
\* wildcard beside it, data keys named like the meta-keys
StrictScenarios ==
  { One(<< Strict(FALSE), Field("name", <<Type("string")>>) >>,
        << <<"name", LStr("abc")>>, <<"extra", LInt(1)>> >>, TRUE),
    One(<< Strict(TRUE), Field("name", <<Type("string")>>) >>,
        << <<"name", LStr("abc")>>, <<"extra", LInt(1)>> >>, FALSE),
    One(<< <<"*", Rule(<<Types(<<"string", "integer">>)>>)>>, Field("name", <<Type("string")>>) >>,
        << <<"name", LStr("abc")>>, <<"extra", LInt(1)>> >>, TRUE),
    One(<< Strict(TRUE), <<"#", Rule(<<Type("string")>>)>>, <<"*", Rule(<<>>)>>,
           Field("name", <<Type("string")>>) >>,
        << <<"name", LStr("abc")>>, <<"@", LInt(1)>>, <<"#", LInt(2)>>, <<"*", LInt(3)>> >>,
        FALSE),
    One(<< Field("u", <<Type("object"), Children(<< Strict(FALSE), Field("x", <<>>) >>)>>) >>,
        << <<"u", Obj(<< <<"x", LInt(1)>>, <<"y", LInt(2)>> >>)>> >>, TRUE),
    One(<< Field("u", <<Type("object"), Children(<< Strict(TRUE), Field("x", <<>>) >>)>>) >>,
        << <<"u", Obj(<< <<"x", LInt(1)>>, <<"y", LInt(2)>> >>)>> >>, FALSE) }

\* Reserved names, as keys of the data and as fields of the schema (both as
\* JSON.parse builds them: own keys)
Evil == Obj(<< <<"evil", LBool(TRUE)>> >>)
ReservedScenarios ==
  { One(<< Field("name", <<Type("string")>>) >>,
        << <<"name", LStr("a")>>, <<"constructor", LInt(1)>>, <<"prototype", LInt(2)>> >>, TRUE),
    One(<< Field("name", <<Type("string")>>) >>,
        << <<"name", LStr("a")>>, <<"__proto__", Evil>> >>, TRUE),
    One(<< Strict(FALSE), <<"#", Rule(<<Type("string"), Pattern(LStr("^[a-z]+$"))>>)>>,
           <<"*", Rule(<<Type("string")>>)>> >>,
        << <<"safe", LStr("hello")>>, <<"__proto__", Evil>>, <<"constructor", LInt(1)>> >>,
        TRUE),
    Sc(Obj(<< Field("name", <<Type("string")>>) >>),
       << Obj(<< <<"name", LStr("a")>>, <<"__proto__", LInt(1)>> >>) >>, TRUE, "p."),
    One(<< Field("name", <<Type("string")>>), Field("constructor", <<Type("string"), Required>>),
           Field("prototype", <<Default(LStr("x"))>>) >>,
        << <<"name", LStr("a")>> >>, TRUE),
    One(<< Field("name", <<Type("string")>>), Field("constructor", <<Type("string")>>) >>,
        << <<"name", LStr("a")>>, <<"constructor", LInt(1)>> >>, TRUE),
    One(<< Field("name", <<Type("string"), Required>>),
           Field("__proto__", <<Type("string"), Required>>) >>,
        << <<"name", LStr("Alice")>> >>, FALSE),
    One(<< Field("name", <<Type("string")>>), Field("__proto__", <<Strict(FALSE)>>) >>,
        << <<"name", LStr("a")>>, <<"extra", LInt(1)>> >>, TRUE),
    One(<< Field("name", <<Type("string")>>),
           Field("__proto__", << <<"*", Rule(<<Types(<<"string">>)>>)>> >>) >>,
        << <<"name", LStr("a")>>, <<"extra", LInt(1)>> >>, FALSE) }

Max(i) == <<"max", LInt(i)>>
PerTypes(entries) ==
  <<"per_type", Obj([j \in 1..Len(entries) |-> <<entries[j][1], Obj(entries[j][2])>>])>>

\* Rules with per_type entries, each used for values of several types in turn
PerTypeScenarios ==
  { Sc(Obj(<< Field("val", <<Types(<<"integer", "string">>),
                             PerTypes(<< <<"integer", <<Max(10)>>>>,
                                         <<"string", <<Max(5)>>>> >>)>>) >>),
       << Obj(<< <<"val", LInt(11)>> >>), Obj(<< <<"val", LStr("toolong")>> >>) >>, TRUE, ""),
    Sc(Obj(<< Field("val", <<Types(<<"string", "integer">>), Min(2), In(<<"abc", "zz">>),
                             PerTypes(<< <<"string", <<Min(5), Pattern(LStr("^[0-9]+$"))>>>>,
                                         <<"integer", << <<"in", Arr(<<LInt(1)>>)>> >>>> >>)>>) >>),
       << Obj(<< <<"val", LStr("zz")>> >>), Obj(<< <<"val", LInt(1)>> >>) >>, TRUE, ""),
    Sc(Obj(<< Field("v", <<Types(<<"object", "string">>),
                           Children(<< Field("x", <<Required>>) >>),
                           PerTypes(<< <<"object", <<Children(<< Field("y", <<Required>>) >>)>>>>,
                                       <<"string", <<Max(2)>>>> >>)>>) >>),
       << Obj(<< <<"v", Obj(<<>>)>> >>), Obj(<< <<"v", LStr("abc")>> >>) >>, FALSE, "") }

\* Bounds on an integer, a string, an array and a number, with magnitudes
\* below, at and above them
Bounded ==
  << Field("n", <<Type("integer"), Min(10), Max(12)>>),
     Field("s", <<Type("string"), Min(2), Max(3)>>),
     Field("l", <<Type("array"), Min(1), Max(2)>>),
     Field("x", <<Type("number"), <<"min", Leaf(Half(5))>>, Max(3)>>) >>
BoundScenarios ==
  { Sc(Obj(Bounded),
       << Obj(<< <<"n", LInt(9)>>, <<"s", LStr("ab")>>,
                 <<"l", Arr(<<LInt(1), LInt(2), LInt(3)>>)>>, <<"x", Leaf(Half(5))>> >>),
          Obj(<< <<"n", LInt(12)>>, <<"s", LStr("abcd")>>, <<"l", Arr(<<>>)>>,
                 <<"x", LInt(3)>> >>) >>, TRUE, "") }

\* Transforms whose result passes or fails where the value supplied would
\* not, with and without apply_transformed
TransformScenarios ==
  { One(<< Field("a", <<Type("integer"), Transform("parseInt"), Min(50),
                        <<"in", Arr(<<LInt(100)>>)>>>>),
           Field("b", <<Type("integer"), Transform("inc"), Max(7), WriteBack>>),
           Field("c", <<Type("string"), Transform("toLowerCase"),
                        Pattern(LStr("^[a-z]+$")), In(<<"abc">>), WriteBack>>),
           Field("d", <<Types(<<"object", "null">>), Transform("toNull"),
                        Children(<< Field("x", <<Required>>) >>)>>),
           Field("e", <<Type("string"), Transform("toLowerCase"), Min(5), In(<<"yes">>)>>),
           Field("g", <<Type("string"), Transform("parseInt")>>) >>,
        << <<"a", LStr("100")>>, <<"b", LInt(7)>>, <<"c", LStr("ABC")>>,
           <<"d", Obj(<<>>)>>, <<"e", LStr("No")>>, <<"g", LStr("42")>> >>, TRUE) }

\* Null under rules whose other attributes it would fail, or that have no
\* meaning for it; q is a string beside them
NullScenarios ==
  { One(<< Field("a", <<Types(<<"null", "string">>), Min(5), Max(9),
                        Pattern(LRegExp("^[a-z]+$", "")), In(<<"abc">>), Special("email")>>),
           Field("b", <<Min(1), Children(<< Field("x", <<Required>>) >>)>>),
           Field("c", <<Type("null"), In(<<"abc">>),
                        Children(<< Field("x", <<Required>>) >>)>>),
           Field("d", <<Types(<<"null", "integer">>),
                        PerTypes(<< <<"null", <<Min(5), Pattern(LStr("^[0-9]+$")),
                                                In(<<"abc">>),
                                                Children(<< Field("y", <<Required>>) >>)>>>> >>)>>),
           Field("e", <<Types(<<"string", "null">>), Min(3), Default(LNull)>>),
           Field("q", <<Types(<<"null", "string">>), Min(5)>>) >>,
        << <<"a", LNull>>, <<"b", LNull>>, <<"c", LNull>>, <<"d", LNull>>,
           <<"q", LStr("abc")>> >>, TRUE) }

\* NaN and the infinities under typed rules and under rules with no type
\* whose other attributes they would fail; q is a finite number beside them
NonFiniteScenarios ==
  { One(<< Field("a", <<Type("number"), Min(1), In(<<"abc">>)>>),
           Field("b", <<Min(1), Max(2), In(<<"abc">>), Pattern(LStr("^[a-z]+$")),
                        Children(<< Field("x", <<Required>>) >>)>>),
           Field("c", <<Types(<<"integer", "string">>), Max(2), Pattern(LStr("^[a-z]+$")),
                        PerTypes(<< <<"integer", <<Min(5)>>>> >>)>>),
           Field("d", <<Transform("parseInt"), Min(50), WriteBack>>),
           Field("q", <<Type("number"), Min(5)>>) >>,
        << <<"a", Leaf(NaN)>>, <<"b", Leaf(V("num", "Infinity", 0))>>,
           <<"c", Leaf(V("num", "-Infinity", 0))>>,
           <<"d", LStr("abc")>>, <<"q", LInt(1)>> >>, TRUE) }

\* Failures three levels down, below an array and below an errors prefix:
\* a missing required field, a wrong type, a key that is not allowed and a
\* key name that fails the '#' rule
PathScenarios ==
  { Sc(Obj(<< Field("u", <<Type("object"),
                 Children(<< Field("l", <<Type("array"),
                               Children(<< <<"*", Rule(<<Type("object"),
                                 Children(<< Field("x", <<Type("string"), Required>>) >>)>>)>>
                                        >>)>>),
                             <<"#", Rule(<<Type("string"), Pattern(LStr("^[a-z]+$"))>>)>> >>)>>),
              Field("r", <<Required>>) >>),
       << Obj(<< <<"u", Obj(<< <<"l", Arr(<< Obj(<<>>),
                                             Obj(<< <<"x", LInt(1)>>, <<"extra", LInt(1)>> >>)
                                          >>)>>,
                               <<"K1", LInt(2)>> >>)>>,
                 <<"top", LInt(1)>> >>) >>, TRUE, "p.") }

\* Schemas with rules the meta-schema has no place for: at the top level,
\* one level down, and an in that is a string or a number
MalformedScenarios ==
  { One(<< Field("val", <<Type("string"), <<"in", LStr("a")>>>>) >>,
        << <<"val", LStr("a")>> >>, TRUE),
    One(<< Field("val", <<Type("string"), <<"in", LInt(5)>>>>) >>,
        << <<"val", LStr("a")>> >>, TRUE),
    One(<< Field("u", <<Type("object"),
                        Children(<< Field("x", << <<"bogus", LInt(1)>>, Type("strng"),
                                                  <<"min", LStr("five")>> >>) >>)>>) >>,
        << <<"u", Obj(<< <<"x", LStr("a")>> >>)>> >>, TRUE),
    One(<< Field("a", << <<"bogus", LInt(1)>> >>),
           Field("b", <<Special("zip")>>),
           Field("c", << <<"min", LStr("five")>> >>),
           Field("d", << <<"max", LBool(TRUE)>> >>),
           Field("e", << <<"required", LStr("yes")>> >>),
           Field("g", <<Types(<<"string", "foobar">>)>>),
           Field("i", << <<"in", LInt(0)>> >>) >>,
        << <<"a", LStr("a")>> >>, FALSE),
    One(<< <<"@", Obj(<< <<"other", LBool(TRUE)>> >>)>>, Field("name", <<Type("string")>>) >>,
        << <<"name", LStr("abc")>> >>, FALSE) }

\* Children in effect for values that are no containers: under rules that
\* declare a type beside the containers, by the base rule and by the
\* per_type entry, under a rule of containers only, and under rules that
\* declare no type
ChildrenScenarios ==
  { Sc(Obj(<< Field("a", <<Types(<<"array", "integer">>),
                           Children(<< <<"*", Rule(<<Type("string")>>)>> >>)>>),
              Field("b", <<Type("string"),
                           PerTypes(<< <<"string",
                                         <<Children(<< Field("x", <<Required>>) >>)>>>> >>)>>),
              Field("o", <<Type("object"), Children(<< Field("x", <<Required>>) >>)>>),
              Field("c", <<Children(<< Field("x", <<Required>>) >>)>>),
              Field("d", <<PerTypes(<< <<"boolean",
                                         <<Children(<< Field("x", <<Required>>) >>)>>>> >>)>>) >>),
       << Obj(<< <<"a", LInt(5)>>, <<"b", LStr("abc")>>, <<"o", LStr("abc")>> >>),
          Obj(<< <<"c", LStr("abc")>> >>),
          Obj(<< <<"d", LBool(TRUE)>> >>) >>, TRUE, "") }

\* Bounds in effect for values with no magnitude: under rules that declare
\* two types, by the base rule and by the per_type entry, then under a rule
\* that declares none; and under a rule that declares object alone
UnmeasuredScenarios ==
  { Sc(Obj(<< Field("a", <<Types(<<"string", "boolean">>), Min(1)>>),
              Field("b", <<Types(<<"boolean", "string">>),
                           PerTypes(<< <<"boolean", <<Max(0)>>>> >>)>>),
              Field("o", <<Types(<<"object", "array">>), Min(1), Max(1)>>),
              Field("c", <<Min(1)>>) >>),
       << Obj(<< <<"a", LBool(TRUE)>>, <<"b", LBool(FALSE)>>, <<"o", Obj(<<>>)>> >>),
          Obj(<< <<"a", LStr("")>>, <<"c", LFn("f")>> >>) >>, TRUE, ""),
    One(<< Field("o", <<Type("object"), Max(1)>>) >>, << <<"o", Obj(<<>>)>> >>, TRUE) }

\* Allow-lists over scalars and arrays, listed and not, then over an object
InScenarios ==
  { Sc(Obj(<< Field("a", <<Type("string"), In(<<"a", "b">>)>>),
              Field("b", <<Type("integer"), <<"in", Arr(<<LInt(1), LInt(2)>>)>>>>),
              Field("c", <<Type("array"), In(<<"a", "b">>)>>),
              Field("d", <<Type("array"), In(<<"a", "b">>)>>),
              Field("e", <<Type("array"), In(<<"a", "b">>)>>),
              Field("g", <<Type("boolean"), <<"in", Arr(<<LBool(TRUE)>>)>>>>),
              Field("h", <<Type("array"), <<"in", Arr(<<Arr(<<>>), LStr("a")>>)>>>>),
              Field("o", <<Types(<<"object", "string">>), In(<<"a">>)>>) >>),
       << Obj(<< <<"a", LStr("a")>>, <<"b", LInt(4)>>,
                 <<"c", Arr(<<LStr("x"), LStr("y"), LStr("a")>>)>>,
                 <<"d", Arr(<<>>)>>, <<"e", Arr(<<LStr("b"), LStr("a"), LStr("b")>>)>>,
                 <<"g", LBool(FALSE)>>, <<"h", Arr(<<Arr(<<>>)>>)>>, <<"o", LStr("a")>> >>),
          Obj(<< <<"a", LStr("c")>>, <<"o", Obj(<<>>)>> >>) >>, TRUE, "") }

\* Patterns and formats side by side: over values that are no strings, over
\* a string longer than its format allows, and over strings that fail the
\* format, the pattern, both or neither
FormatScenarios ==
  { One(<< Field("a", <<Types(<<"integer", "string">>), Pattern(LStr("^[a-z]+$")),
                        Special("email")>>),
           Field("b", <<Type("string"), Special("date"), Pattern(LStr("^[0-9]+$"))>>),
           Field("c", <<Type("string"), Special("ipv4"), Pattern(LStr("^[a-z]+$"))>>),
           Field("d", <<Type("string"), Special("email"), Pattern(LStr("^[0-9]+$"))>>),
           Field("e", <<Type("string"), Special("hex-color")>>),
           Field("g", <<Type("boolean"), Special("email")>>) >>,
        << <<"a", LInt(7)>>, <<"b", LStr("2024-01-15x")>>, <<"c", LStr("abc")>>,
           <<"d", LStr("a@b.co")>>, <<"e", LStr("#fff")>>, <<"g", LBool(TRUE)>> >>, TRUE) }

\* The wildcard and key rules beside named rules in strict mode: keys with a
\* named rule and without one, a wildcard that writes its transformed value
\* back, a key the key rule rejects, a required field the data lacks
WildcardScenarios ==
  { One(<< <<"#", Rule(<<Type("string"), Pattern(LStr("^[a-z]+$"))>>)>>,
           <<"*", Rule(<<Type("integer"), Transform("inc"), WriteBack, Max(4)>>)>>,
           Field("r", <<Required>>),
           Field("m", <<Type("integer"), Min(6)>>),
           Field("n", <<Type("integer"), Min(5)>>),
           Field("q", <<Type("integer"), Min(6)>>) >>,
        << <<"q", LInt(0)>>, <<"m", LInt(4)>>, <<"n", LInt(4)>>, <<"x", LInt(9)>>,
           <<"y", LInt(0)>>, <<"K1", LInt(1)>> >>, TRUE) }

Scenarios ==
  WildcardScenarios \cup FormatScenarios \cup InScenarios \cup UnmeasuredScenarios \cup ChildrenScenarios \cup MalformedScenarios \cup PathScenarios \cup NonFiniteScenarios \cup NullScenarios \cup TransformScenarios \cup BasicScenarios \cup NestedScenarios \cup DefaultScenarios \cup PatternScenarios
  \cup SchemaErrorScenarios \cup FailureScenarios \cup StrictScenarios \cup ReservedScenarios
  \cup PerTypeScenarios \cup BoundScenarios

Init == InitWith(Scenarios)

Spec == Init /\ [][Next]_vars

(***************************************************************************)
(* What a call is expected to report, read off the trees of the schema and *)
(* the input as they were when the call started.                           *)
(***************************************************************************)
\* A call that ran to its verdict: it returned, or threw the validation
\* failure
Completed(call) == call.op # "none" /\ call.ex \in {"", "ODVException"}

Has(tree, k) == k \in DOMAIN tree.c
TreeValue(tree) == V(tree.t, tree.s, tree.n)
IsLeaf(tree) == tree.t \notin {"object", "array", "regexp"}

\* The ODV type of a value; "" for a number that is not finite
TreeType(tree) ==
  CASE tree.t \in {"object", "regexp"} -> "object"
    [] tree.t = "array" -> "array"
    [] tree.t = "num" ->
         IF tree.s # "" THEN "" ELSE IF tree.n % 2 = 0 THEN "integer" ELSE "number"
    [] OTHER -> tree.t

\* The type set of a rule: the names it lists, and integer with number
TypeNames(rule) ==
  IF ~Has(rule, "type") THEN {}
  ELSE IF rule.c["type"].t = "string"
  THEN (IF rule.c["type"].s = "" THEN {} ELSE {rule.c["type"].s})
  ELSE IF rule.c["type"].t = "array"
  THEN {rule.c["type"].c[k].s : k \in DOMAIN rule.c["type"].c}
  ELSE {}
TypeSet(rule) ==
  TypeNames(rule) \cup (IF "number" \in TypeNames(rule) THEN {"integer"} ELSE {})

\* The value a rule's checks see: the value its transform makes of the one
\* supplied
Seen(rule, tree) ==
  IF ~Has(rule, "transform") THEN tree
  ELSE IF IsLeaf(tree)
  THEN Leaf(CallTransform(TreeValue(rule.c["transform"]), TreeValue(tree)))
  ELSE IF rule.c["transform"].s = "toNull" THEN LNull
  ELSE IF rule.c["transform"].s = "parseInt" THEN Leaf(NaN)
  ELSE tree

Mismatch(rule, v) == TypeSet(rule) # {} /\ TreeType(v) \notin TypeSet(rule)

Magnitude(v) ==
  CASE v.t = "array" -> 2 * Len(v.keys)
    [] v.t = "string" -> 2 * Len(v.s)
    [] OTHER -> v.n
Sized(v) == TreeType(v) \in {"array", "string", "number", "integer"}
\* The characters of a string, as the list [...str] makes of it
CharList(str) == StrList([i \in 1..Len(str) |-> SubSeq(str, i, i)])
\* A value in an allow-list; a list given as a string is the list of its
\* characters by the time a rule is applied
Listed(list, v) ==
  IF list.t = "string" THEN \E k \in DOMAIN CharList(list.s).c : CharList(list.s).c[k] = v
  ELSE \E k \in DOMAIN list.c : list.c[k] = v
PatternSource(pattern) ==
  IF pattern.t = "string" THEN pattern.s ELSE pattern.c["source"].s

\* The codes of the checks a value of an accepted type violates
Violations(rule, v) ==
  (IF Has(rule, "min") /\ Sized(v) /\ Magnitude(v) < rule.c["min"].n
   THEN {"MIN_VIOLATION"} ELSE {})
  \cup (IF Has(rule, "max") /\ Sized(v) /\ Magnitude(v) > rule.c["max"].n
        THEN {"MAX_VIOLATION"} ELSE {})
  \cup (IF Has(rule, "in") /\ TreeType(v) \notin {"object", "array"}
           /\ ~Listed(rule.c["in"], v)
        THEN {"VALUE_NOT_IN_LIST"} ELSE {})
  \cup (IF Has(rule, "in") /\ TreeType(v) = "array"
           /\ \E k \in DOMAIN v.c : ~Listed(rule.c["in"], v.c[k])
        THEN {"ARRAY_ELEMENT_NOT_IN_LIST"} ELSE {})
  \cup (IF Has(rule, "pattern")
           /\ (v.t # "string" \/ ~Matches(PatternSource(rule.c["pattern"]), v.s))
        THEN {"PATTERN_MISMATCH"} ELSE {})
  \cup (IF Has(rule, "special") /\ v.t = "string"
           /\ rule.c["special"].s \in DOMAIN SPECIAL_MAX_LENGTHS
           /\ (Len(v.s) > SPECIAL_MAX_LENGTHS[rule.c["special"].s]
               \/ ~SPECIAL_VALIDATORS(rule.c["special"].s, v.s))
        THEN {"INVALID_FORMAT"} ELSE {})

IsRequired(rule) == Has(rule, "required") /\ rule.c["required"] = LBool(TRUE)
WritesBack(rule) ==
  Has(rule, "apply_transformed") /\ rule.c["apply_transformed"] = LBool(TRUE)
\* A rule whose attributes do not depend on the type of the value
Plain(rule) == ~Has(rule, "per_type")
NamedFields(schema) == (DOMAIN schema.c) \ META_KEYS

\* The value under a key of a level once the wildcard pass is over: what a
\* '*' rule that writes transforms back made of it
Wildcarded(schema, v) ==
  IF Has(schema, "*") /\ WritesBack(schema.c["*"]) THEN Seen(schema.c["*"], v) ELSE v

RECURSIVE Failures(_, _, _, _)
RECURSIVE ValueFailures(_, _, _, _)
\* The errors expected of a value under a rule, as pairs <<path, code>>: the
\* type mismatch alone, or else every violated check and the failures of the
\* fields below an object
ValueFailures(rule, v, path, skipped) ==
  IF ~Plain(rule) THEN {}
  ELSE IF Mismatch(rule, v) THEN {<<path, "TYPE_MISMATCH">>}
  ELSE IF v.t = "null" \/ TreeType(v) = "" THEN {}
  ELSE {<<path, code>> : code \in Violations(rule, v)}
       \cup (IF Has(rule, "children") /\ v.t = "object"
             THEN Failures(rule.c["children"], v, path \o ".", skipped)
             ELSE {})

\* The errors expected of the named fields of one level and of the levels
\* below it; `skipped` are the field names the named pass leaves out
Failures(schema, data, prefix, skipped) ==
  UNION { IF Has(data, f)
          THEN ValueFailures(schema.c[f], Seen(schema.c[f], Wildcarded(schema, data.c[f])),
                             prefix \o f, skipped)
          ELSE IF Has(schema.c[f], "default")
          THEN ValueFailures(schema.c[f], Seen(schema.c[f], schema.c[f].c["default"]),
                             prefix \o f, skipped)
          ELSE IF IsRequired(schema.c[f]) THEN {<<prefix \o f, "REQUIRED">>}
          ELSE {} : f \in NamedFields(schema) \ skipped }

\* The codes recorded under one path, in order
CodesAt(errors, path) ==
  IF path \in DOMAIN errors.f
  THEN [j \in 1..Len(errors.f[path]) |-> errors.f[path][j].code]
  ELSE <<>>
Recorded(errors, e) == e[2] \in Range(CodesAt(errors, e[1]))
AllCodes(errors) == UNION {Range(CodesAt(errors, path)) : path \in DOMAIN errors.f}

(***************************************************************************)
(* The properties of the validation calls.                                 *)
(***************************************************************************)
\* C1: a call never mutates the caller's input object, at any depth: after
\* every call each input, read out of the heap, is the tree the caller built
InputUntouched ==
  \A i \in 1..Len(caller.inputs) : Freeze(heap, caller.inputs[i]) = caller.inputs0[i]

\* C2: a call never mutates the caller's schema, the objects that are the
\* values of `default` included: after every call the schema, read out of
\* the heap, is the tree the caller built
SchemaUntouched == Freeze(heap, caller.schema) = caller.schema0

\* The same call made twice: same operation, same schema argument, same
\* input, and schema and input equal, as values, at the start of both
SameCall(a, b) ==
  /\ a.op # "none" /\ b.op # "none"
  /\ a.op = b.op /\ a.arg = b.arg /\ a.i = b.i
  /\ a.schemaBefore = b.schemaBefore
  /\ a.inputBefore = b.inputBefore

\* C3: validation is a deterministic function of the schema, the input and
\* the options: the same call made twice in a row, a prepared ODVRules
\* instance or validator reused, yields the same errors and the same output
Repeatable ==
  SameCall(prev, last) =>
    /\ last.kind = prev.kind
    /\ last.ex = prev.ex
    /\ last.errors = prev.errors
    /\ last.data = prev.data

\* The codes of the schema errors found while a value is evaluated
SchemaCodes == {"MIN_MAX_NOT_APPLICABLE", "IN_NOT_APPLICABLE", "CHILDREN_TYPE_ERROR"}

\* C4: safeParse never throws for data errors and always rethrows the
\* ODVRulesException.  A safeParse that throws does not throw the validation
\* failure; one that returns a failure carries the data errors collected
\* and no schema error; one that succeeds collected none; a schema error
\* found at evaluation leaves by the exception; and where parse threw
\* ODVRulesException (ODVException) for a schema and input, safeParse on the
\* same throws it with the same details (returns).
SafeParseRethrowsSchemaErrors ==
  /\ last.op = "safeParse" =>
       /\ last.kind = "throw" => last.ex # "ODVException"
       /\ (last.kind = "return" /\ ~last.value.success) =>
            /\ Len(last.errors.keys) > 0
            /\ last.details = last.errors
            /\ AllCodes(last.errors) \cap SchemaCodes = {}
       /\ (last.kind = "return" /\ last.value.success) => Len(last.errors.keys) = 0
       /\ AllCodes(last.details) \cap SchemaCodes # {} =>
            last.kind = "throw" /\ last.ex = "ODVRulesException"
  /\ (/\ prev.op = "parse" /\ last.op = "safeParse"
      /\ prev.arg = last.arg /\ prev.i = last.i
      /\ prev.schemaBefore = last.schemaBefore
      /\ prev.inputBefore = last.inputBefore) =>
       /\ prev.ex = "ODVRulesException" =>
            /\ last.kind = "throw" /\ last.ex = "ODVRulesException"
            /\ last.details = prev.details
       /\ prev.ex = "ODVException" => last.kind = "return"

\* A safeParse that threw the schema error found while a boolean was held
\* against `min`, with a data error already collected, after parse threw it
\* for the same schema and input
SafeParseRethrew ==
  /\ prev.op = "parse" /\ prev.ex = "ODVRulesException"
  /\ last.op = "safeParse" /\ last.kind = "throw" /\ last.ex = "ODVRulesException"
  /\ "MIN_MAX_NOT_APPLICABLE" \in AllCodes(last.details)
  /\ "REQUIRED" \in AllCodes(last.errors)

\* How a call that ran to its verdict hands it over: ODVValidator.validate
\* and the standalone validate by the exception mode, parse by the
\* exception, safeParse by the result
Surfaced(call) ==
  CASE call.op \in {"ODVValidator.validate", "validate"} ->
         IF Len(call.errors.keys) = 0
         THEN /\ call.kind = "return"
              /\ call.value = (IF call.op = "validate" THEN call.data ELSE LBool(TRUE))
         ELSE IF call.arg
         THEN /\ call.kind = "throw" /\ call.ex = "ODVException"
              /\ call.details = call.errors
         ELSE call.kind = "return" /\ call.value = LBool(FALSE)
    [] call.op = "parse" ->
         IF Len(call.errors.keys) = 0
         THEN call.kind = "return" /\ call.value = call.data
         ELSE /\ call.kind = "throw" /\ call.ex = "ODVException"
              /\ call.details = call.errors
    [] call.op = "safeParse" ->
         /\ call.kind = "return"
         /\ call.value.success = (Len(call.errors.keys) = 0)
         /\ Len(call.errors.keys) > 0 => call.details = call.errors

\* C5: a call surfaces a failure if and only if the ErrorsMap is non-empty
\* after processing, and there is no short-circuit: every failing field of
\* the pass is recorded, at every level, and the verdict is the throw of
\* ODVException carrying the ErrorsMap, the return of false, or the return
\* of true, as the errors and the exception mode have it
FailureIffErrors ==
  Completed(last) =>
    /\ Surfaced(last)
    /\ \A e \in Failures(last.schemaBefore, last.inputBefore, caller.prefix,
                         POISONED_KEYS) : Recorded(last.errors, e)

\* A validator in exception mode that threw with failures of three named
\* fields and of a field one level down all in the ErrorsMap it carries
SeveralFailuresThrown ==
  /\ last.op = "ODVValidator.validate" /\ last.arg
  /\ last.kind = "throw" /\ last.ex = "ODVException"
  /\ Cardinality(Failures(last.schemaBefore, last.inputBefore, caller.prefix,
                          POISONED_KEYS)) >= 4
  /\ \E e \in Failures(last.schemaBefore, last.inputBefore, caller.prefix, POISONED_KEYS) :
       \E f \in NamedFields(last.schemaBefore) : e[1] = caller.prefix \o f \o ".x"
  /\ Cardinality(DOMAIN last.details.f) >= 5

\* The named fields of the root level that have a value to check: the one
\* the input supplies, or else the rule's default
Offered(call) ==
  {f \in NamedFields(call.schemaBefore) \ POISONED_KEYS :
     /\ Plain(call.schemaBefore.c[f])
     /\ Has(call.inputBefore, f) \/ Has(call.schemaBefore.c[f], "default")}
\* The value the checks of such a field see
Checkee(call, f) ==
  Seen(call.schemaBefore.c[f],
       IF Has(call.inputBefore, f) THEN call.inputBefore.c[f]
       ELSE call.schemaBefore.c[f].c["default"])

\* C6: a type mismatch is terminal for its value, exactly one TYPE_MISMATCH
\* and nothing else under its path, while the other checks are independent
\* of one another: a value of an accepted type has no TYPE_MISMATCH and has
\* the code of every check it violates
TypeMismatchTerminal ==
  (Completed(last) /\ ~Has(last.schemaBefore, "*")) =>
    \A f \in Offered(last) :
      IF Mismatch(last.schemaBefore.c[f], Checkee(last, f))
      THEN CodesAt(last.errors, caller.prefix \o f) = <<"TYPE_MISMATCH">>
      ELSE /\ "TYPE_MISMATCH" \notin Range(CodesAt(last.errors, caller.prefix \o f))
           /\ (Checkee(last, f).t # "null" /\ TreeType(Checkee(last, f)) # "") =>
                Violations(last.schemaBefore.c[f], Checkee(last, f))
                  \subseteq Range(CodesAt(last.errors, caller.prefix \o f))

\* One call with a value of the wrong type whose rule has other checks the
\* value would fail too, and a value of the right type that fails the
\* minimum, the list, the format and the pattern at once
MismatchBesideFourFailures ==
  /\ Completed(last) /\ ~Has(last.schemaBefore, "*")
  /\ \E f \in Offered(last) :
       /\ Mismatch(last.schemaBefore.c[f], Checkee(last, f))
       /\ Cardinality(Violations(last.schemaBefore.c[f], Checkee(last, f))) >= 2
       /\ CodesAt(last.errors, caller.prefix \o f) = <<"TYPE_MISMATCH">>
  /\ \E g \in Offered(last) :
       /\ ~Mismatch(last.schemaBefore.c[g], Checkee(last, g))
       /\ Violations(last.schemaBefore.c[g], Checkee(last, g))
            = {"MIN_VIOLATION", "VALUE_NOT_IN_LIST", "INVALID_FORMAT", "PATTERN_MISMATCH"}
       /\ Len(CodesAt(last.errors, caller.prefix \o g)) = 4

\* The effective strict mode of the root level: the level's own '@'.strict
\* when it is defined, the ambient option otherwise
StrictAt(schema) ==
  IF Has(schema, "@") /\ Has(schema.c["@"], "strict")
  THEN schema.c["@"].c["strict"] = LBool(TRUE)
  ELSE caller.strictMode

\* C7: the effective strict mode of a level is its own '@'.strict when
\* defined, else the ambient strictMode; in strict mode every own key of the
\* data that is not a named schema field gets NOT_ALLOWED, and out of strict
\* mode no key does.  Stated for the root level and the data keys other
\* than the three reserved names.
StrictModeEnforced ==
  (Completed(last) /\ last.inputBefore.t = "object") =>
    \A k \in (DOMAIN last.inputBefore.c) \ POISONED_KEYS :
      ("NOT_ALLOWED" \in Range(CodesAt(last.errors, caller.prefix \o k)))
        = (StrictAt(last.schemaBefore) /\ k \notin NamedFields(last.schemaBefore))

\* C8: the input keys __proto__, constructor and prototype are skipped: no
\* rule is evaluated for them and no error is recorded for them, neither
\* under their path nor under their key path, strict mode included
ReservedInputKeysSilent ==
  (Completed(last) /\ last.inputBefore.t = "object") =>
    \A k \in (DOMAIN last.inputBefore.c) \cap POISONED_KEYS :
      /\ (caller.prefix \o k) \notin DOMAIN last.errors.f
      /\ (caller.prefix \o k \o "#key") \notin DOMAIN last.errors.f

\* The schema without the fields that have a reserved name
Stripped(schema) ==
  [schema EXCEPT !.keys = SelectSeq(schema.keys, isSafeKey),
                 !.c = [k \in (DOMAIN schema.c) \ POISONED_KEYS |-> schema.c[k]]]

\* safeParse of a schema and an input given as trees, on objects built anew
Afresh(schema, input) ==
  LET a == Alloc(BaseHeap, schema)
      b == Alloc(a.h, input)
      c == safeParse(St(b.h, {}), PlainSchema(a.v), b.v, caller.strictMode, caller.prefix)
  IN [kind |-> c.kind, ex |-> c.st.ex,
      success |-> IF c.kind = "return" THEN c.value.success ELSE FALSE,
      data |-> Freeze(c.st.h, DataOf("safeParse", c)),
      errors |-> FreezeErrors(c.st.h, c.st.errors)]

\* C9: schema fields named __proto__, constructor or prototype are ignored
\* by the named pass: the outcome of a call equals the outcome under the
\* same schema with that field removed
ReservedFieldsIgnored ==
  (last.op = "safeParse" /\ ~last.arg
   /\ (DOMAIN last.schemaBefore.c) \cap POISONED_KEYS # {}) =>
    /\ last.kind = Afresh(Stripped(last.schemaBefore), last.inputBefore).kind
    /\ last.ex = Afresh(Stripped(last.schemaBefore), last.inputBefore).ex
    /\ last.errors = Afresh(Stripped(last.schemaBefore), last.inputBefore).errors
    /\ last.data = Afresh(Stripped(last.schemaBefore), last.inputBefore).data

\* The rule of a field evaluated on a value: every failure expected of the
\* value is recorded
Evaluated(call, f, v) ==
  \A e \in ValueFailures(call.schemaBefore.c[f], Seen(call.schemaBefore.c[f], v),
                         caller.prefix \o f, POISONED_KEYS) : Recorded(call.errors, e)

\* The default of a field as the schema holds it once the call is over
DefaultNow(f) == Freeze(heap, caller.schema).c[f].c["default"]

\* The named pass on one field: a missing key with a default has the default
\* in the output, transformed if the rule writes transforms back, and is
\* validated as a value; a present key has its rule evaluated; an absent
\* required key has exactly one REQUIRED; an absent optional key has
\* nothing recorded and stays absent
FieldOutcome(call, f) ==
  IF Has(call.inputBefore, f)
  THEN /\ Has(call.data, f)
       /\ Evaluated(call, f, Wildcarded(call.schemaBefore, call.inputBefore.c[f]))
  ELSE IF Has(call.schemaBefore.c[f], "default")
  THEN /\ Has(call.data, f)
       /\ call.data.c[f] = (IF WritesBack(call.schemaBefore.c[f])
                            THEN Seen(call.schemaBefore.c[f], DefaultNow(f))
                            ELSE DefaultNow(f))
       /\ Evaluated(call, f, call.schemaBefore.c[f].c["default"])
  ELSE /\ ~Has(call.data, f)
       /\ CodesAt(call.errors, caller.prefix \o f)
            = (IF IsRequired(call.schemaBefore.c[f]) THEN <<"REQUIRED">> ELSE <<>>)

\* C10: the named-field pass, for every named schema field other than
\* __proto__, constructor and prototype: the default is written when the
\* key is missing and then validated as a normal value; a present key has
\* its rule evaluated; an absent required key gets exactly one REQUIRED;
\* an absent optional key records nothing and stays absent from the output
NamedFieldPass ==
  (last.op = "ODVValidator.validate" /\ Completed(last)) =>
    \A f \in NamedFields(last.schemaBefore) \ POISONED_KEYS : FieldOutcome(last, f)

\* C10 as stated, for every named schema field, the reserved names included
NamedFieldPassEveryField ==
  (last.op = "ODVValidator.validate" /\ Completed(last)) =>
    \A f \in NamedFields(last.schemaBefore) : FieldOutcome(last, f)

\* One call with the four cases side by side: a present field, an absent
\* required field with its REQUIRED, an absent optional field, and an absent
\* field whose default was written and failed its type check
FourFieldCases ==
  /\ last.op = "ODVValidator.validate" /\ Completed(last)
  /\ \E f \in NamedFields(last.schemaBefore) \ POISONED_KEYS :
       Has(last.inputBefore, f) /\ Has(last.data, f)
  /\ \E f \in NamedFields(last.schemaBefore) \ POISONED_KEYS :
       /\ ~Has(last.inputBefore, f) /\ IsRequired(last.schemaBefore.c[f])
       /\ CodesAt(last.errors, caller.prefix \o f) = <<"REQUIRED">>
  /\ \E f \in NamedFields(last.schemaBefore) \ POISONED_KEYS :
       /\ ~Has(last.inputBefore, f) /\ ~IsRequired(last.schemaBefore.c[f])
       /\ ~Has(last.schemaBefore.c[f], "default") /\ ~Has(last.data, f)
  /\ \E f \in NamedFields(last.schemaBefore) \ POISONED_KEYS :
       /\ ~Has(last.inputBefore, f) /\ Has(last.schemaBefore.c[f], "default")
       /\ Has(last.data, f)
       /\ CodesAt(last.errors, caller.prefix \o f) = <<"TYPE_MISMATCH">>

\* The attributes a per_type entry can override
OVERLAID == {"min", "max", "in", "in:public", "pattern", "special", "children"}

\* The per_type entry for the type of a value, an empty rule when there is
\* none
EntryFor(rule, v) ==
  IF Has(rule, "per_type") /\ Has(rule.c["per_type"], TreeType(v))
  THEN rule.c["per_type"].c[TreeType(v)]
  ELSE Obj(<<>>)
\* The attributes that entry defines
Overrides(rule, v) ==
  {k \in OVERLAID : Has(EntryFor(rule, v), k) /\ EntryFor(rule, v).c[k].t # "null"}
\* The rule a value is checked against: each overlaid attribute from the
\* entry of the value's type when the entry defines it, from the base rule
\* otherwise
Overlaid(rule, v) ==
  [rule EXCEPT !.c = [k \in (DOMAIN rule.c) \cup Overrides(rule, v) |->
                        IF k \in Overrides(rule, v) THEN EntryFor(rule, v).c[k]
                        ELSE rule.c[k]]]

\* The named fields of the root level whose rule has per_type entries and
\* whose value the input supplies
OfferedPerType(call) ==
  {f \in NamedFields(call.schemaBefore) \ POISONED_KEYS :
     Has(call.schemaBefore.c[f], "per_type") /\ Has(call.inputBefore, f)}

\* The errors expected under the path of such a field and below it
OverlaidFailures(rule, v, path) ==
  IF Mismatch(rule, v) THEN {<<path, "TYPE_MISMATCH">>}
  ELSE IF v.t = "null" \/ TreeType(v) = "" THEN {}
  ELSE {<<path, code>> : code \in Violations(Overlaid(rule, v), v)}
       \cup (IF Has(Overlaid(rule, v), "children") /\ v.t = "object"
             THEN Failures(Overlaid(rule, v).c["children"], v, path \o ".", POISONED_KEYS)
             ELSE {})

\* The entries recorded under a path with a given code
EntriesAt(errors, path, code) ==
  IF path \in DOMAIN errors.f
  THEN {errors.f[path][j] : j \in {i \in 1..Len(errors.f[path]) : errors.f[path][i].code = code}}
  ELSE {}
LMagnitude(v) == Leaf(V("num", "", Magnitude(v)))

\* C11: the per-type overlay.  A value is checked against the entry of its
\* own type where the entry defines an attribute and against the base rule
\* where it does not, entries of other types have no effect, and this holds
\* of every call of a sequence on the same schema: the errors under the
\* field and below it are the ones the overlaid rule gives, a bound or list
\* error is there only if the overlaid rule gives it, and a bound error
\* names the bound of the value's own type
PerTypeOverlayApplied ==
  (Completed(last) /\ ~Has(last.schemaBefore, "*")) =>
    \A f \in OfferedPerType(last) :
      /\ \A e \in OverlaidFailures(last.schemaBefore.c[f], Checkee(last, f),
                                   caller.prefix \o f) : Recorded(last.errors, e)
      /\ \A code \in {"MIN_VIOLATION", "MAX_VIOLATION", "VALUE_NOT_IN_LIST",
                      "ARRAY_ELEMENT_NOT_IN_LIST", "TYPE_MISMATCH"} :
           code \in Range(CodesAt(last.errors, caller.prefix \o f)) =>
             <<caller.prefix \o f, code>>
               \in OverlaidFailures(last.schemaBefore.c[f], Checkee(last, f),
                                    caller.prefix \o f)
      /\ \A e \in EntriesAt(last.errors, caller.prefix \o f, "MAX_VIOLATION") :
           /\ e.params["max"] = Overlaid(last.schemaBefore.c[f], Checkee(last, f)).c["max"]
           /\ e.params["actual"] = LMagnitude(Checkee(last, f))
      /\ \A e \in EntriesAt(last.errors, caller.prefix \o f, "MIN_VIOLATION") :
           /\ e.params["min"] = Overlaid(last.schemaBefore.c[f], Checkee(last, f)).c["min"]
           /\ e.params["actual"] = LMagnitude(Checkee(last, f))
      /\ (Has(last.schemaBefore.c[f], "children")
          /\ "children" \in Overrides(last.schemaBefore.c[f], Checkee(last, f))) =>
           \A g \in NamedFields(last.schemaBefore.c[f].c["children"])
                    \ NamedFields(EntryFor(last.schemaBefore.c[f], Checkee(last, f)).c["children"]) :
             (caller.prefix \o f \o "." \o g) \notin DOMAIN last.errors.f

\* A string held against the string entry's max of 5 right after an integer
\* was held against the integer entry's max of 10, on the same ODVRules
\* instance
PerTypeLimitsApart ==
  /\ prev.op = "parse" /\ prev.arg /\ last.op = "parse" /\ last.arg
  /\ \E f \in OfferedPerType(last) :
       /\ f \in OfferedPerType(prev)
       /\ TreeType(Checkee(prev, f)) = "integer" /\ TreeType(Checkee(last, f)) = "string"
       /\ \E e \in EntriesAt(prev.errors, caller.prefix \o f, "MAX_VIOLATION") :
            e.params["max"] = LInt(10)
       /\ \E e \in EntriesAt(last.errors, caller.prefix \o f, "MAX_VIOLATION") :
            e.params["max"] = LInt(5) /\ e.params["actual"] = LInt(7)

\* The error a bound records: its code, the bound and the magnitude found
BoundEntry(code, name, bound, v) ==
  [code |-> code, params |-> (name :> bound) @@ ("actual" :> LMagnitude(v))]
\* The number of entries with a code under a path
CountAt(errors, path, code) ==
  Cardinality({j \in 1..Len(CodesAt(errors, path)) : CodesAt(errors, path)[j] = code})

\* The fields of the root level with a value that has a magnitude and a
\* type the rule accepts
Measured(call) ==
  {f \in Offered(call) :
     /\ Sized(Checkee(call, f))
     /\ ~Mismatch(call.schemaBefore.c[f], Checkee(call, f))}

\* C12: bounds are inclusive and measured on the element count of an array,
\* the character count of a string and the value of a number: one
\* MIN_VIOLATION with params {min, actual} if and only if the magnitude is
\* below min, one MAX_VIOLATION with params {max, actual} if and only if it
\* is above max, and nothing for a magnitude equal to a bound
BoundsInclusive ==
  (Completed(last) /\ ~Has(last.schemaBefore, "*")) =>
    \A f \in Measured(last) :
      /\ EntriesAt(last.errors, caller.prefix \o f, "MIN_VIOLATION")
           = (IF Has(last.schemaBefore.c[f], "min")
                 /\ Magnitude(Checkee(last, f)) < last.schemaBefore.c[f].c["min"].n
              THEN {BoundEntry("MIN_VIOLATION", "min", last.schemaBefore.c[f].c["min"],
                               Checkee(last, f))}
              ELSE {})
      /\ EntriesAt(last.errors, caller.prefix \o f, "MAX_VIOLATION")
           = (IF Has(last.schemaBefore.c[f], "max")
                 /\ Magnitude(Checkee(last, f)) > last.schemaBefore.c[f].c["max"].n
              THEN {BoundEntry("MAX_VIOLATION", "max", last.schemaBefore.c[f].c["max"],
                               Checkee(last, f))}
              ELSE {})
      /\ CountAt(last.errors, caller.prefix \o f, "MIN_VIOLATION") <= 1
      /\ CountAt(last.errors, caller.prefix \o f, "MAX_VIOLATION") <= 1

\* One call with an integer of 9 under a min of 10, an array of three
\* elements over a max of two, and a string and a number that sit on their
\* min and record nothing
BoundsMet ==
  /\ Completed(last)
  /\ \E f \in Measured(last) :
       /\ TreeType(Checkee(last, f)) = "integer"
       /\ BoundEntry("MIN_VIOLATION", "min", LInt(10), LInt(9))
            \in EntriesAt(last.errors, caller.prefix \o f, "MIN_VIOLATION")
  /\ \E f \in Measured(last) :
       /\ TreeType(Checkee(last, f)) = "array"
       /\ CodesAt(last.errors, caller.prefix \o f) = <<"MAX_VIOLATION">>
  /\ \E f \in Measured(last) :
       /\ TreeType(Checkee(last, f)) = "string"
       /\ Magnitude(Checkee(last, f)) = last.schemaBefore.c[f].c["min"].n
       /\ CodesAt(last.errors, caller.prefix \o f) = <<>>
  /\ \E f \in Measured(last) :
       /\ TreeType(Checkee(last, f)) = "number"
       /\ Magnitude(Checkee(last, f)) = last.schemaBefore.c[f].c["min"].n
       /\ CodesAt(last.errors, caller.prefix \o f) = <<>>

(***************************************************************************)
(* ODVRules.normalize on its own: the caller normalizes the schema, and    *)
(* normalizes results of normalize again.                                  *)
(***************************************************************************)
\* The number of normalize calls of one behaviour
MaxNormalize == 3

\* Schemas with types to rewrite at every depth: under children, under the
\* children of a per_type entry, in the '#' and '*' rules, and types given
\* as null or as the empty string
DeepSchemas ==
  { Obj(<< Field("u", <<Type("object"),
                        Children(<< Field("x", <<Type("number")>>),
                                    <<"*", Rule(<<Type("integer")>>)>> >>),
                        PerTypes(<< <<"object",
                                      <<Children(<< Field("y", <<Type("number")>>) >>)>>>> >>)>>),
           <<"#", Rule(<<Type("string")>>)>>,
           <<"*", Rule(<<Types(<<"number">>)>>)>>,
           Strict(TRUE) >>),
    Obj(<< Field("v", << <<"type", LNull>>, Min(1) >>),
           Field("w", <<Type(""), Default(Obj(<<>>))>>),
           Field("k", <<Min(1)>>) >>),
    Obj(<< Field("p", <<Types(<<"number", "integer">>), Pattern(LRegExp("^[a-z]+$", "g")),
                        In(<<"a", "b">>), <<"in:public", LBool(TRUE)>>>>),
           Field("q", <<Types(<<"string", "number">>), Transform("parseInt"), WriteBack>>) >>) }

NormalizeScenarios ==
  {Sc(schema, <<>>, TRUE, "") : schema \in DeepSchemas \cup {sc.schema : sc \in Scenarios}}

NormalizeInit == InitWith(NormalizeScenarios)

\* What a normalize call leaves behind: its argument as it was, and its
\* result n = [st, v] as a tree and as the object returned
Normalized(again, arg, n) ==
  /\ heap' = n.st.h
  /\ patternCache' = n.st.cache
  /\ calls' = calls + 1
  /\ prev' = last
  /\ last' = [op |-> "normalize", again |-> again,
              kind |-> IF n.st.ex = "" THEN "return" ELSE "throw",
              ex |-> n.st.ex,
              arg |-> Freeze(heap, arg),
              value |-> Freeze(n.st.h, n.v),
              ref |-> n.v]
  /\ UNCHANGED <<caller, rules, validators>>

\* ODVRules.normalize(schema), or ODVRules.normalize of what the last call
\* returned
NormalizeCall(again) ==
  /\ calls < MaxNormalize
  /\ again => (last.op = "normalize" /\ last.kind = "return")
  /\ Normalized(again, IF again THEN last.ref ELSE caller.schema,
                normalize(Start, IF again THEN last.ref ELSE caller.schema))

NormalizeNext == \E again \in BOOLEAN : NormalizeCall(again)

SpecNormalize == NormalizeInit /\ [][NormalizeNext]_vars

\* C13: normalize is idempotent: the normalization of a schema that
\* normalize returned is structurally equal to that schema
NormalizeIdempotent ==
  (last.op = "normalize" /\ last.again /\ last.kind = "return") => last.value = last.arg

\* A schema that normalize had changed, normalized a second time
NormalizedTwice ==
  /\ prev.op = "normalize" /\ ~prev.again /\ prev.kind = "return"
  /\ prev.value # prev.arg
  /\ last.op = "normalize" /\ last.again /\ last.kind = "return"
  /\ last.arg = prev.value

\* The elements of a list tree, in order
Items(list) == [j \in 1..Len(list.keys) |-> list.c[list.keys[j]]]
\* A type list that holds "integer" whenever it holds "number"
IntegerWithNumber(type) ==
  LStr("number") \in Range(Items(type)) => LStr("integer") \in Range(Items(type))
IsTypeList(type) == type.t = "array" /\ IntegerWithNumber(type)

\* What rule.type becomes: a one-name list for a bare name, the list with
\* "integer" after "number", null for a type that is null or empty
ListedType(type) ==
  IF type.t = "array"
  THEN (IF IntegerWithNumber(type) THEN type ELSE Arr(Append(Items(type), LStr("integer"))))
  ELSE IF type.t = "string" /\ type.s # ""
  THEN (IF type.s = "number" THEN Arr(<<type, LStr("integer")>>) ELSE Arr(<<type>>))
  ELSE LNull

RECURSIVE TypesListed(_, _)
RECURSIVE RuleTypesListed(_, _)
\* Every type field of a schema, at every depth reached through children
\* and through the entries of per_type, the '#' and '*' rules included, is a
\* type list; `orNull` lets a type be null instead
TypesListed(schema, orNull) ==
  \A k \in (DOMAIN schema.c) \ {"@"} : RuleTypesListed(schema.c[k], orNull)
RuleTypesListed(rule, orNull) ==
  /\ Has(rule, "type") =>
       IsTypeList(rule.c["type"]) \/ (orNull /\ rule.c["type"].t = "null")
  /\ (Has(rule, "per_type") /\ rule.c["per_type"].t = "object") =>
       \A e \in DOMAIN rule.c["per_type"].c : RuleTypesListed(rule.c["per_type"].c[e], orNull)
  /\ (Has(rule, "children") /\ rule.c["children"].t = "object") =>
       TypesListed(rule.c["children"], orNull)

RECURSIVE SameButTypes(_, _)
RECURSIVE RuleSameButTypes(_, _)
\* Schema b is schema a with nothing changed but the types: the same
\* fields (a field named __proto__ aside), the same '@', and for every rule
\* the same attributes with the same values, at every depth
SameButTypes(a, b) ==
  /\ (DOMAIN a.c) \ {"__proto__"} = DOMAIN b.c
  /\ \A k \in DOMAIN b.c :
       IF k = "@" THEN b.c[k] = a.c[k] ELSE RuleSameButTypes(a.c[k], b.c[k])
RuleSameButTypes(a, b) ==
  /\ DOMAIN b.c = DOMAIN a.c
  /\ b.keys = a.keys
  /\ \A k \in DOMAIN a.c :
       IF k = "type" THEN b.c[k] = ListedType(a.c[k])
       ELSE IF k = "in" /\ a.c[k].t = "string" THEN b.c[k] = CharList(a.c[k].s)
       ELSE IF k = "children" /\ a.c[k].t = "object" THEN SameButTypes(a.c[k], b.c[k])
       ELSE IF k = "per_type" /\ a.c[k].t = "object"
       THEN /\ DOMAIN b.c[k].c = DOMAIN a.c[k].c
            /\ \A e \in DOMAIN a.c[k].c : RuleSameButTypes(a.c[k].c[e], b.c[k].c[e])
       ELSE b.c[k] = a.c[k]

OnInstance(call) ==
  call.op = "ODVValidator.validate" \/ (call.op \in {"parse", "safeParse"} /\ call.arg)
OnPlainSchema(call) ==
  call.op = "validate" \/ (call.op \in {"parse", "safeParse"} /\ ~call.arg)
\* A call that validated its input with no error
Succeeded(call) == call.op # "none" /\ call.kind = "return" /\ Len(call.errors.keys) = 0

\* A schema no ODVRules instance can be made of: the copy of an allow-list
\* that is a number or a boolean throws
Unbuildable(schema) ==
  \E k \in (DOMAIN schema.c) \ {"@"} :
    /\ Has(schema.c[k], "in")
    /\ schema.c[k].c["in"].t \in {"num", "boolean"}
    /\ schema.c[k].c["in"] \notin {LInt(0), LBool(FALSE)}

\* C15: the meta-schema check runs once per ODVRules instance and not once
\* per validation call: a call on an instance runs it if and only if the
\* instance is not yet marked as validated, so that after a first call that
\* passed it no later call on the instance runs it again; a call given a
\* plain schema object wraps it in a new instance and runs the check every
\* time, unless no instance can be made of the schema
BootstrapOncePerInstance ==
  /\ (last.op # "none" /\ OnInstance(last)) =>
       last.boots = (IF last.validatedBefore THEN 0 ELSE 1)
  /\ (Succeeded(prev) /\ OnInstance(prev) /\ last.op # "none" /\ OnInstance(last)) =>
       last.validatedBefore /\ last.boots = 0
  /\ (last.op # "none" /\ OnPlainSchema(last)) =>
       last.boots = (IF Unbuildable(last.schemaBefore) THEN 0 ELSE 1)

\* C15 as stated, for the schema object whatever it is: after a first
\* successful validation against a schema, a later call against that same
\* schema does not run the check again
BootstrapOncePerSchema ==
  (/\ Succeeded(prev) /\ last.op # "none"
   /\ (OnInstance(prev) /\ OnInstance(last)) \/ (OnPlainSchema(prev) /\ OnPlainSchema(last))
   /\ prev.schemaBefore = last.schemaBefore) =>
    last.boots = 0

\* A second successful call on the shared instance that ran no check, after
\* a first one that ran it
CheckedOnceThenNot ==
  /\ Succeeded(prev) /\ OnInstance(prev) /\ prev.boots = 1 /\ ~prev.validatedBefore
  /\ Succeeded(last) /\ OnInstance(last) /\ last.boots = 0
  /\ last.op # prev.op

\* What a validator made anew over the shared instance would make of the
\* call a reused validator is about to run
ByNewValidator(exceptionMode, i) ==
  ValidatorValidate(Start, rules, Options(caller.strictMode, exceptionMode),
                    caller.inputs[i], caller.prefix)

\* C16: after any sequence of validate calls on one ODVValidator, errors
\* holds exactly the errors of the last call and data its processed output:
\* whatever the validator held from earlier calls, every call leaves it with
\* the errors and the data a validator made anew leaves for that call
ValidatorHoldsLastCallOnly ==
  [][ (calls' = calls + 1 /\ last'.op = "ODVValidator.validate") =>
        /\ validators'[last'.arg].errors = ByNewValidator(last'.arg, last'.i).st.errors
        /\ validators'[last'.arg].data = ByNewValidator(last'.arg, last'.i).data
        /\ last'.errors = FreezeErrors(heap', validators'[last'.arg].errors)
        /\ last'.data = Freeze(heap', validators'[last'.arg].data) ]_vars

\* A validator used for two inputs in turn that failed both, holding after
\* the second call none of the paths only the first call had recorded
SecondCallAlone ==
  /\ prev.op = "ODVValidator.validate" /\ last.op = "ODVValidator.validate"
  /\ prev.arg = last.arg /\ prev.i # last.i
  /\ Completed(prev) /\ Completed(last)
  /\ Len(last.errors.keys) > 0
  /\ (DOMAIN prev.errors.f) \ (DOMAIN last.errors.f) # {}
  /\ FreezeErrors(heap, validators[last.arg].errors) = last.errors
  /\ prev.data # last.data

\* What a call on the shared instance produces when it is run alone: by a
\* new validator over a new ODVRules instance made from a fresh copy of the
\* schema, on a copy of the input
Alone(call) ==
  LET a == Alloc(BaseHeap, call.schemaBefore)
      b == Alloc(a.h, call.inputBefore)
      r == ODVRules(St(b.h, {}), a.v)
      o == ValidatorValidate(r.st, r.v, Options(caller.strictMode, TRUE), b.v,
                             caller.prefix)
  IN [ex |-> IF o.st.ex = "ODVException" THEN "" ELSE o.st.ex,
      errors |-> FreezeErrors(o.st.h, o.st.errors),
      data |-> Freeze(o.st.h, o.data)]

\* C17: validation calls against one shared ODVRules instance share no
\* mutable state that affects results: in every interleaving of complete
\* calls of the validators that use it, each call's ErrorsMap and output
\* data are the ones the call produces when run alone on a fresh copy of
\* the schema
SharedRulesStateless ==
  (last.op = "ODVValidator.validate" /\ Completed(last)) =>
    /\ Alone(last).ex = ""
    /\ last.errors = Alone(last).errors
    /\ last.data = Alone(last).data

\* The codes expected under the path of a root field whose rule sees v
CodesExpected(call, f, v) ==
  {e[2] : e \in {x \in ValueFailures(call.schemaBefore.c[f], v, caller.prefix \o f,
                                      POISONED_KEYS) : x[1] = caller.prefix \o f}}
\* The value a call supplies for a root field: the input's, or the default
Supplied(call, f) ==
  IF Has(call.inputBefore, f) THEN call.inputBefore.c[f]
  ELSE call.schemaBefore.c[f].c["default"]
\* The root fields with a transform and a value to hand to it
Transforming(call) ==
  {f \in Offered(call) : Has(call.schemaBefore.c[f], "transform")}

\* C18: the type check and every later check of a rule with a transform see
\* transform(value) and never the value supplied: the codes under the
\* field's path are those of the transformed value, and so are the errors of
\* its children; the output holds the transformed value under the key if
\* and only if apply_transformed is set, and the value supplied otherwise
TransformedValueChecked ==
  (Completed(last) /\ ~Has(last.schemaBefore, "*")) =>
    \A f \in Transforming(last) :
      /\ Range(CodesAt(last.errors, caller.prefix \o f))
           = CodesExpected(last, f, Checkee(last, f))
      /\ Has(last.schemaBefore.c[f], "children") =>
           \A g \in NamedFields(last.schemaBefore.c[f].c["children"]) :
             (caller.prefix \o f \o "." \o g \in DOMAIN last.errors.f)
               <=> \E e \in ValueFailures(last.schemaBefore.c[f], Checkee(last, f),
                                          caller.prefix \o f, POISONED_KEYS) :
                     e[1] = caller.prefix \o f \o "." \o g
      /\ last.data.t = "object" =>
           /\ Has(last.data, f)
           /\ last.data.c[f] = (IF WritesBack(last.schemaBefore.c[f])
                                THEN Checkee(last, f) ELSE Supplied(last, f))

\* One call where a value that passes as supplied fails once transformed, a
\* value of the wrong type passes once transformed, the children of an
\* object turned into null are not looked at, and the output holds one
\* transformed and one supplied value that differ from their counterparts
TransformTellsApart ==
  /\ Completed(last) /\ ~Has(last.schemaBefore, "*") /\ last.data.t = "object"
  /\ \E f \in Transforming(last) :
       /\ CodesExpected(last, f, Supplied(last, f)) = {}
       /\ CodesAt(last.errors, caller.prefix \o f) = <<"MAX_VIOLATION">>
       /\ WritesBack(last.schemaBefore.c[f])
       /\ last.data.c[f] = Checkee(last, f) /\ Checkee(last, f) # Supplied(last, f)
  /\ \E f \in Transforming(last) :
       /\ CodesExpected(last, f, Supplied(last, f)) = {"TYPE_MISMATCH"}
       /\ Has(last.schemaBefore.c[f], "min") /\ Has(last.schemaBefore.c[f], "in")
       /\ CodesAt(last.errors, caller.prefix \o f) = <<>>
       /\ ~WritesBack(last.schemaBefore.c[f])
       /\ last.data.c[f] = Supplied(last, f) /\ Checkee(last, f) # Supplied(last, f)
  /\ \E f \in Transforming(last) :
       /\ Has(last.schemaBefore.c[f], "pattern")
       /\ "PATTERN_MISMATCH" \in CodesExpected(last, f, Supplied(last, f))
       /\ CodesAt(last.errors, caller.prefix \o f) = <<>>
  /\ \E f \in Transforming(last) :
       /\ Has(last.schemaBefore.c[f], "children")
       /\ ValueFailures(last.schemaBefore.c[f], Supplied(last, f), caller.prefix \o f,
                        POISONED_KEYS) = {<<caller.prefix \o f \o ".x", "REQUIRED">>}
       /\ caller.prefix \o f \o ".x" \notin DOMAIN last.errors.f

\* The named root fields whose rule is handed null, from the input, the
\* default or the transform, and accepts it
NullAccepted(call) ==
  {f \in NamedFields(call.schemaBefore) \ POISONED_KEYS :
     /\ Has(call.inputBefore, f) \/ Has(call.schemaBefore.c[f], "default")
     /\ Seen(call.schemaBefore.c[f], Supplied(call, f)) = LNull
     /\ ~Mismatch(call.schemaBefore.c[f], LNull)}
\* A rule and the entries of its per_type
WithEntries(rule) ==
  {rule} \cup (IF Has(rule, "per_type") /\ rule.c["per_type"].t = "object"
               THEN {rule.c["per_type"].c[k] : k \in DOMAIN rule.c["per_type"].c}
               ELSE {})
\* The paths of a root field and of the fields its rules name below it
PathsOf(call, f) ==
  {caller.prefix \o f}
  \cup {caller.prefix \o f \o "." \o g :
          g \in UNION {NamedFields(r.c["children"]) :
                         r \in {r \in WithEntries(call.schemaBefore.c[f]) :
                                  Has(r, "children")}}}

\* C19: an accepted null skips the bound, in, pattern/special and children
\* checks: nothing is recorded under the field or below it, and no
\* schema-definition error is raised for it, whatever the rule or its
\* per_type entry defines
NullSkipsChecks ==
  (last.op # "none" /\ ~Has(last.schemaBefore, "*")) =>
    \A f \in NullAccepted(last) : \A path \in PathsOf(last, f) :
      /\ path \notin DOMAIN last.errors.f
      /\ path \notin DOMAIN last.details.f

\* One call handing null to a typed rule with bounds, a list, a pattern and
\* a format, to an untyped rule with a bound and children, to a rule whose
\* per_type entry for null has its own checks and children, and to a rule
\* by its default, while a string beside them fails its minimum: the only
\* path with errors is the string's
NullUnderEveryCheck ==
  /\ Completed(last) /\ ~Has(last.schemaBefore, "*")
  /\ \E f \in NullAccepted(last) :
       /\ TypeSet(last.schemaBefore.c[f]) # {}
       /\ {"min", "max", "in", "pattern", "special"} \subseteq DOMAIN last.schemaBefore.c[f].c
  /\ \E f \in NullAccepted(last) :
       /\ TypeSet(last.schemaBefore.c[f]) = {}
       /\ {"min", "children"} \subseteq DOMAIN last.schemaBefore.c[f].c
  /\ \E f \in NullAccepted(last) :
       /\ Has(last.schemaBefore.c[f], "per_type")
       /\ Has(last.schemaBefore.c[f].c["per_type"], "null")
       /\ {"min", "in", "pattern", "children"}
            \subseteq DOMAIN last.schemaBefore.c[f].c["per_type"].c["null"].c
  /\ \E f \in NullAccepted(last) : ~Has(last.inputBefore, f) /\ Has(last.data, f)
  /\ \E g \in NamedFields(last.schemaBefore) \ NullAccepted(last) :
       /\ DOMAIN last.errors.f = {caller.prefix \o g}
       /\ CodesAt(last.errors, caller.prefix \o g) = <<"MIN_VIOLATION">>

\* The named root fields whose rule is handed a non-finite number
NonFinite(call) ==
  {f \in NamedFields(call.schemaBefore) \ POISONED_KEYS :
     /\ Has(call.inputBefore, f) \/ Has(call.schemaBefore.c[f], "default")
     /\ Seen(call.schemaBefore.c[f], Supplied(call, f)).t = "num"
     /\ TreeType(Seen(call.schemaBefore.c[f], Supplied(call, f))) = ""}

\* C20: NaN and the infinities have no value type.  Under a rule with a
\* type constraint exactly one TYPE_MISMATCH is recorded and no other check
\* runs; under a rule with none no check runs and nothing is recorded, even
\* when the rule defines min, max, in, pattern or children; no check raises
\* a schema-definition error for the field either way
NonFiniteUntyped ==
  (last.op # "none" /\ ~Has(last.schemaBefore, "*")) =>
    \A f \in NonFinite(last) :
      /\ \A path \in PathsOf(last, f) \ {caller.prefix \o f} :
           path \notin DOMAIN last.errors.f /\ path \notin DOMAIN last.details.f
      /\ last.ex = "ODVRulesException" => caller.prefix \o f \notin DOMAIN last.details.f
      /\ Completed(last) =>
           CodesAt(last.errors, caller.prefix \o f)
             = (IF TypeSet(last.schemaBefore.c[f]) # {} THEN <<"TYPE_MISMATCH">> ELSE <<>>)

\* One call with NaN under a typed rule and minus infinity under a rule with
\* a per_type, each with its single TYPE_MISMATCH and other checks it would
\* fail; plus infinity and a transform's NaN under untyped rules with
\* bounds, a list, a pattern and children, nothing recorded; and a finite
\* number failing its minimum beside them
NonFiniteBesideFinite ==
  /\ Completed(last) /\ ~Has(last.schemaBefore, "*")
  /\ \E f \in NonFinite(last) :
       /\ Supplied(last, f) = Leaf(NaN)
       /\ {"min", "in"} \subseteq DOMAIN last.schemaBefore.c[f].c
       /\ CodesAt(last.errors, caller.prefix \o f) = <<"TYPE_MISMATCH">>
  /\ \E f \in NonFinite(last) :
       /\ Supplied(last, f).s = "-Infinity"
       /\ Has(last.schemaBefore.c[f], "per_type")
       /\ CodesAt(last.errors, caller.prefix \o f) = <<"TYPE_MISMATCH">>
  /\ \E f \in NonFinite(last) :
       /\ Supplied(last, f).s = "Infinity"
       /\ TypeSet(last.schemaBefore.c[f]) = {}
       /\ {"min", "max", "in", "pattern", "children"}
            \subseteq DOMAIN last.schemaBefore.c[f].c
       /\ caller.prefix \o f \notin DOMAIN last.errors.f
  /\ \E f \in NonFinite(last) :
       /\ Has(last.schemaBefore.c[f], "transform") /\ Supplied(last, f).t = "string"
       /\ Has(last.schemaBefore.c[f], "min")
       /\ caller.prefix \o f \notin DOMAIN last.errors.f
       /\ last.data.c[f] = Leaf(NaN)
  /\ \E g \in NamedFields(last.schemaBefore) \ NonFinite(last) :
       CodesAt(last.errors, caller.prefix \o g) = <<"MIN_VIOLATION">>

\* The keys of a value that has any
KeysOf(data) == IF data.t \in {"object", "array"} THEN DOMAIN data.c ELSE {}
\* The rules a level applies to the key k of its data, per_type entries
\* included: the named rule, and the '*' rule when the data has the key
RulesFor(schema, data, k) ==
  (IF k \in NamedFields(schema) THEN WithEntries(schema.c[k]) ELSE {})
  \cup (IF k \in KeysOf(data) /\ Has(schema, "*") THEN WithEntries(schema.c["*"]) ELSE {})
\* The values the rules of key k may be handed: the data's, or the default
ValuesFor(schema, data, k) ==
  (IF k \in KeysOf(data) THEN {data.c[k]} ELSE {})
  \cup (IF k \in NamedFields(schema) /\ Has(schema.c[k], "default")
        THEN {schema.c[k].c["default"]} ELSE {})
\* What a key is at its level: a named field that is missing, a key of the
\* data with no named rule, or a field with a value
KindOf(schema, data, k) ==
  IF k \notin NamedFields(schema) THEN "extra"
  ELSE IF ValuesFor(schema, data, k) = {} THEN "missing" ELSE "field"

RECURSIVE Positions(_, _, _)
\* The positions of a schema walk over data, as pairs <<path, kind>>: the
\* path is the prefix, then the field names and array indices from the root
\* joined by '.', and for a key name the suffix '#key'
Positions(schema, data, prefix) ==
  UNION { {<<prefix \o k, KindOf(schema, data, k)>>}
          \cup (IF k \in KeysOf(data) /\ Has(schema, "#")
                THEN {<<prefix \o k \o "#key", "key">>} ELSE {})
          \cup UNION { Positions(r.c["children"], v, prefix \o k \o ".") :
                         r \in {r \in RulesFor(schema, data, k) : Has(r, "children")},
                         v \in ValuesFor(schema, data, k) }
          : k \in NamedFields(schema) \cup KeysOf(data) }

\* The positions a call can report on
PositionsOf(call) == Positions(call.schemaBefore, call.inputBefore, caller.prefix)
\* The kinds of position an error code belongs to
KindsOf(code) ==
  CASE code = "REQUIRED" -> {"missing"}
    [] code = "NOT_ALLOWED" -> {"extra"}
    [] OTHER -> {"field", "extra", "key"}

\* C21: every key of the ErrorsMap is the errorsPrefix followed by the path
\* of the failing position, field names and array indices from the root
\* joined by '.', with the suffix '#key' for key-name errors, at every
\* depth and for every code: REQUIRED at a missing named field, NOT_ALLOWED
\* at a key with no named rule
ErrorKeysArePaths ==
  Completed(last) =>
    \A path \in DOMAIN last.errors.f : \A code \in Range(CodesAt(last.errors, path)) :
      \E pos \in PositionsOf(last) : pos[1] = path /\ pos[2] \in KindsOf(code)

\* One call under an errors prefix whose ErrorsMap has exactly the keys of
\* a missing root field, an extra root key, a missing field and a wrong
\* type and an extra key below two array indices, and an extra key one
\* level down with the error of its name beside it
DeepErrorKeys ==
  /\ Completed(last) /\ caller.prefix = "p."
  /\ DOMAIN last.errors.f
       = {caller.prefix \o k : k \in {"r", "top", "u.l.0.x", "u.l.1.x", "u.l.1.extra",
                                       "u.K1", "u.K1#key"}}
  /\ CodesAt(last.errors, caller.prefix \o "u.l.0.x") = <<"REQUIRED">>
  /\ CodesAt(last.errors, caller.prefix \o "u.l.1.x") = <<"TYPE_MISMATCH">>
  /\ CodesAt(last.errors, caller.prefix \o "u.l.1.extra") = <<"NOT_ALLOWED">>
  /\ CodesAt(last.errors, caller.prefix \o "u.K1#key") = <<"PATTERN_MISMATCH">>
  /\ CodesAt(last.errors, caller.prefix \o "u.K1") = <<"NOT_ALLOWED">>

\* The attributes a rule may have
RuleAttributes ==
  {"type", "in", "in:public", "min", "max", "pattern", "special", "transform",
   "apply_transformed", "children", "default", "required", "per_type"}
\* A rule the meta-schema has no place for, by the list of the ways
MalformedRule(rule) ==
  \/ (DOMAIN rule.c) \ RuleAttributes # {}
  \/ TypeNames(rule) \ Range(VALUE_TYPES) # {}
  \/ Has(rule, "special") /\ ~(rule.c["special"].t = "string"
                                /\ rule.c["special"].s \in Range(SPECIAL_NAMES))
  \/ Has(rule, "min") /\ rule.c["min"].t # "num"
  \/ Has(rule, "max") /\ rule.c["max"].t # "num"
  \/ Has(rule, "required") /\ rule.c["required"].t # "boolean"
  \/ Has(rule, "in") /\ rule.c["in"].t # "array"
\* An '@' with an option other than a boolean strict
MalformedOptions(schema) ==
  /\ Has(schema, "@")
  /\ \/ (DOMAIN schema.c["@"].c) \ {"strict"} # {}
     \/ Has(schema.c["@"], "strict") /\ schema.c["@"].c["strict"].t # "boolean"
RECURSIVE MalformedWithin(_)
\* A schema with a malformed rule or '@' at some depth reached by children,
\* the rules under the reserved names left aside
MalformedWithin(schema) ==
  \/ MalformedOptions(schema)
  \/ \E k \in (DOMAIN schema.c) \ ({"@"} \cup POISONED_KEYS) :
       \/ MalformedRule(schema.c[k])
       \/ \E r \in WithEntries(schema.c[k]) :
            /\ Has(r, "children") /\ r.c["children"].t = "object"
            /\ MalformedWithin(r.c["children"])
\* The same, for the rules of the top level alone
MalformedOnTop(schema) ==
  \/ MalformedOptions(schema)
  \/ \E k \in (DOMAIN schema.c) \ ({"@"} \cup POISONED_KEYS) : MalformedRule(schema.c[k])

\* C22: before a schema is used every rule of it is checked against the
\* meta-schema, and a rule attribute outside the known ones, a type name
\* outside the eight, a special outside the closed set, a non-number min or
\* max, a non-boolean required, a non-array in or an '@' option other than
\* a boolean strict raises ODVRulesException, never a validation result
MalformedRulesRejected ==
  (last.op # "none" /\ MalformedWithin(last.schemaBefore)) =>
    last.ex = "ODVRulesException"

\* The value the rule of a root field is handed in a call
Handed(call, f) == Seen(call.schemaBefore.c[f], Supplied(call, f))
\* The root fields whose value is no container, no null and no non-finite
\* number while children is in effect for its type, by the base rule or by
\* the per_type entry
ScalarWithChildren(call) ==
  {f \in NamedFields(call.schemaBefore) \ POISONED_KEYS :
     /\ Has(call.inputBefore, f) \/ Has(call.schemaBefore.c[f], "default")
     /\ TreeType(Handed(call, f)) \notin {"", "null", "object", "array"}
     /\ Has(Overlaid(call.schemaBefore.c[f], Handed(call, f)), "children")}
ContainersOnly(rule) == TypeSet(rule) # {} /\ TypeSet(rule) \subseteq {"object", "array"}

\* C23 as stated: a value that is no container under children raises
\* CHILDREN_TYPE_ERROR unless the declared type set is restricted to object
\* and array, in which case nothing is raised
ChildrenRaiseUnlessContainersOnly ==
  (last.op # "none" /\ ~Has(last.schemaBefore, "*")) =>
    \A f \in ScalarWithChildren(last) :
      IF ContainersOnly(last.schemaBefore.c[f])
      THEN last.ex # "ODVRulesException"
      ELSE last.ex = "ODVRulesException"

\* C23: a value that is no container, with children in effect, raises
\* CHILDREN_TYPE_ERROR when the rule declares no type; under a rule that
\* declares types a value of one of them gets no recursion and no error,
\* and a value of none of them gets its TYPE_MISMATCH and nothing else
ChildrenRaiseWhenUntyped ==
  (last.op # "none" /\ ~Has(last.schemaBefore, "*")) =>
    \A f \in ScalarWithChildren(last) :
      IF TypeSet(last.schemaBefore.c[f]) = {}
      THEN /\ last.ex = "ODVRulesException"
           /\ DOMAIN last.details.f = {caller.prefix \o f} =>
                CodesAt(last.details, caller.prefix \o f) = <<"CHILDREN_TYPE_ERROR">>
      ELSE /\ caller.prefix \o f \notin DOMAIN last.details.f
             \/ "CHILDREN_TYPE_ERROR"
                  \notin Range(CodesAt(last.details, caller.prefix \o f))
           /\ \A path \in PathsOf(last, f) \ {caller.prefix \o f} :
                path \notin DOMAIN last.errors.f
           /\ (Completed(last) /\ Mismatch(last.schemaBefore.c[f], Handed(last, f))) =>
                CodesAt(last.errors, caller.prefix \o f) = <<"TYPE_MISMATCH">>

\* A call where an integer and a string of a declared type pass under
\* children, by the base rule and by the per_type entry, beside a string
\* under containers only with its TYPE_MISMATCH, followed by a call where a
\* string under an untyped rule with children raises CHILDREN_TYPE_ERROR
SilentThenRaised ==
  /\ Completed(prev) /\ ~Has(prev.schemaBefore, "*")
  /\ \E f \in ScalarWithChildren(prev) :
       /\ ~Has(prev.schemaBefore.c[f], "per_type")
       /\ ~ContainersOnly(prev.schemaBefore.c[f]) /\ TypeSet(prev.schemaBefore.c[f]) # {}
       /\ caller.prefix \o f \notin DOMAIN prev.errors.f
  /\ \E f \in ScalarWithChildren(prev) :
       /\ Has(prev.schemaBefore.c[f], "per_type") /\ TypeSet(prev.schemaBefore.c[f]) # {}
       /\ caller.prefix \o f \notin DOMAIN prev.errors.f
  /\ \E f \in ScalarWithChildren(prev) :
       /\ ContainersOnly(prev.schemaBefore.c[f])
       /\ CodesAt(prev.errors, caller.prefix \o f) = <<"TYPE_MISMATCH">>
  /\ last.ex = "ODVRulesException"
  /\ \E f \in ScalarWithChildren(last) :
       /\ TypeSet(last.schemaBefore.c[f]) = {}
       /\ CodesAt(last.details, caller.prefix \o f) = <<"CHILDREN_TYPE_ERROR">>

\* The root fields whose value has a type with no magnitude, passes the type
\* check, and has a bound in effect by the base rule or the per_type entry
Unmeasured(call) ==
  {f \in NamedFields(call.schemaBefore) \ POISONED_KEYS :
     /\ Has(call.inputBefore, f) \/ Has(call.schemaBefore.c[f], "default")
     /\ TreeType(Handed(call, f)) \in {"boolean", "object", "function"}
     /\ ~Mismatch(call.schemaBefore.c[f], Handed(call, f))
     /\ \/ Has(Overlaid(call.schemaBefore.c[f], Handed(call, f)), "min")
        \/ Has(Overlaid(call.schemaBefore.c[f], Handed(call, f)), "max")}
BoundCodes == {"MIN_VIOLATION", "MAX_VIOLATION", "MIN_MAX_NOT_APPLICABLE"}

\* C24: a bound in effect for a value whose type has no magnitude raises
\* the schema-definition error MIN_MAX_NOT_APPLICABLE when the rule
\* declares no type or fewer than two, and records nothing when it declares
\* two or more; the error aborts the call and is not in the ErrorsMap
NoMagnitudeNoBound ==
  (last.op # "none" /\ ~Has(last.schemaBefore, "*")) =>
    \A f \in Unmeasured(last) :
      /\ Range(CodesAt(last.errors, caller.prefix \o f)) \cap BoundCodes = {}
      /\ IF Cardinality(TypeNames(last.schemaBefore.c[f])) < 2
         THEN /\ last.ex = "ODVRulesException" /\ last.kind = "throw"
              /\ DOMAIN last.details.f = {caller.prefix \o f} =>
                   CodesAt(last.details, caller.prefix \o f) = <<"MIN_MAX_NOT_APPLICABLE">>
         ELSE Range(CodesAt(last.details, caller.prefix \o f)) \cap BoundCodes = {}

\* A call where two booleans and an object under rules of two types pass
\* their bounds unmeasured, by the base rule and by the per_type entry,
\* followed by a call where a string fails its minimum and then a function
\* under an untyped rule with a bound raises MIN_MAX_NOT_APPLICABLE
UnmeasuredThenRaised ==
  /\ Completed(prev) /\ prev.errors.keys = <<>>
  /\ \E f \in Unmeasured(prev) : Has(prev.schemaBefore.c[f], "per_type")
  /\ \E f \in Unmeasured(prev) : TreeType(Handed(prev, f)) = "object"
  /\ \E f \in Unmeasured(prev) :
       TreeType(Handed(prev, f)) = "boolean" /\ Has(prev.schemaBefore.c[f], "min")
  /\ last.ex = "ODVRulesException" /\ last.kind = "throw"
  /\ \E f \in Unmeasured(last) :
       /\ TypeNames(last.schemaBefore.c[f]) = {}
       /\ TreeType(Handed(last, f)) = "function"
       /\ CodesAt(last.details, caller.prefix \o f) = <<"MIN_MAX_NOT_APPLICABLE">>
       /\ DOMAIN last.details.f = {caller.prefix \o f}

\* Array.prototype.includes on the allow-list: a primitive is in the list
\* by its value, an object or array never is (the list holds other objects)
InList(list, v) == IsLeaf(v) /\ \E k \in DOMAIN list.c : list.c[k] = v
\* The rule in effect for the value of a root field
InEffect(call, f) == Overlaid(call.schemaBefore.c[f], Handed(call, f))
\* The root fields whose value reaches the checks with an allow-list in
\* effect for it
Listing(call) ==
  {f \in NamedFields(call.schemaBefore) \ POISONED_KEYS :
     /\ Has(call.inputBefore, f) \/ Has(call.schemaBefore.c[f], "default")
     /\ TreeType(Handed(call, f)) \notin {"", "null"}
     /\ ~Mismatch(call.schemaBefore.c[f], Handed(call, f))
     /\ Has(InEffect(call, f), "in") /\ InEffect(call, f).c["in"].t = "array"}
\* How many times a code is recorded under a path
Times(errors, path, code) ==
  Cardinality({j \in DOMAIN CodesAt(errors, path) : CodesAt(errors, path)[j] = code})
\* Whether the allow-list of a field has something to report on the value
Disallowed(call, f) ==
  IF TreeType(Handed(call, f)) = "array"
  THEN \E k \in DOMAIN Handed(call, f).c :
         ~InList(InEffect(call, f).c["in"], Handed(call, f).c[k])
  ELSE ~InList(InEffect(call, f).c["in"], Handed(call, f))

\* C25: with an allow-list in effect an object raises IN_NOT_APPLICABLE; an
\* array records exactly one ARRAY_ELEMENT_NOT_IN_LIST if some element is
\* not in the list and none if all are, the empty array included; any other
\* value records exactly one VALUE_NOT_IN_LIST if and only if it is not in
\* the list
AllowListApplied ==
  (last.op # "none" /\ ~Has(last.schemaBefore, "*")) =>
    \A f \in Listing(last) :
      IF TreeType(Handed(last, f)) = "object"
      THEN /\ last.ex = "ODVRulesException"
           /\ (DOMAIN last.details.f = {caller.prefix \o f}
               /\ ~Has(InEffect(last, f), "min") /\ ~Has(InEffect(last, f), "max")) =>
                CodesAt(last.details, caller.prefix \o f) = <<"IN_NOT_APPLICABLE">>
      ELSE Completed(last) =>
             /\ Times(last.errors, caller.prefix \o f, "ARRAY_ELEMENT_NOT_IN_LIST")
                  = (IF TreeType(Handed(last, f)) = "array" /\ Disallowed(last, f)
                     THEN 1 ELSE 0)
             /\ Times(last.errors, caller.prefix \o f, "VALUE_NOT_IN_LIST")
                  = (IF TreeType(Handed(last, f)) # "array" /\ Disallowed(last, f)
                     THEN 1 ELSE 0)

\* A call with a listed string, an unlisted integer and boolean, an array
\* with two unlisted elements and its single error, an empty array and an
\* array of listed elements with none, followed by a call where a string
\* is not listed and an object under an allow-list raises IN_NOT_APPLICABLE
ListedAndNot ==
  /\ Completed(prev) /\ ~Has(prev.schemaBefore, "*")
  /\ \E f \in Listing(prev) :
       Handed(prev, f).t = "string" /\ caller.prefix \o f \notin DOMAIN prev.errors.f
  /\ \E f \in Listing(prev) :
       /\ Handed(prev, f).t = "num"
       /\ CodesAt(prev.errors, caller.prefix \o f) = <<"VALUE_NOT_IN_LIST">>
  /\ \E f \in Listing(prev) :
       /\ Handed(prev, f).t = "boolean"
       /\ CodesAt(prev.errors, caller.prefix \o f) = <<"VALUE_NOT_IN_LIST">>
  /\ \E f \in Listing(prev) :
       /\ Handed(prev, f).t = "array"
       /\ Cardinality({k \in DOMAIN Handed(prev, f).c :
                         ~InList(InEffect(prev, f).c["in"], Handed(prev, f).c[k])}) = 2
       /\ CodesAt(prev.errors, caller.prefix \o f) = <<"ARRAY_ELEMENT_NOT_IN_LIST">>
  /\ \E f \in Listing(prev) :
       /\ Handed(prev, f).t = "array" /\ Handed(prev, f).keys = <<>>
       /\ caller.prefix \o f \notin DOMAIN prev.errors.f
  /\ \E f \in Listing(prev) :
       /\ Handed(prev, f).t = "array" /\ Len(Handed(prev, f).keys) = 3
       /\ caller.prefix \o f \notin DOMAIN prev.errors.f
  /\ last.ex = "ODVRulesException"
  /\ \E f \in Listing(last) :
       /\ TreeType(Handed(last, f)) = "object"
       /\ CodesAt(last.details, caller.prefix \o f) = <<"IN_NOT_APPLICABLE">>

\* The root fields whose value reaches the checks with a pattern or a
\* format in effect for it
Patterned(call) ==
  {f \in NamedFields(call.schemaBefore) \ POISONED_KEYS :
     /\ Has(call.inputBefore, f) \/ Has(call.schemaBefore.c[f], "default")
     /\ TreeType(Handed(call, f)) \notin {"", "null"}
     /\ ~Mismatch(call.schemaBefore.c[f], Handed(call, f))
     /\ Has(InEffect(call, f), "pattern") \/ Has(InEffect(call, f), "special")}
\* The pattern and format codes under a path, in the order recorded
PatternCodes(errors, path) ==
  SelectSeq(CodesAt(errors, path), LAMBDA c : c \in {"INVALID_FORMAT", "PATTERN_MISMATCH"})
\* A string longer than the format in effect allows
TooLong(rule, v) ==
  /\ Has(rule, "special") /\ rule.c["special"].s \in DOMAIN SPECIAL_MAX_LENGTHS
  /\ Len(v.s) > SPECIAL_MAX_LENGTHS[rule.c["special"].s]
\* What the format check records for a string: one INVALID_FORMAT when the
\* string is too long or does not have the format
FormatCodes(rule, v) ==
  IF Has(rule, "special") /\ rule.c["special"].s \in DOMAIN SPECIAL_MAX_LENGTHS
     /\ (TooLong(rule, v) \/ ~SPECIAL_VALIDATORS(rule.c["special"].s, v.s))
  THEN <<"INVALID_FORMAT">> ELSE <<>>
Unmatched(rule, v) ==
  Has(rule, "pattern") /\ ~Matches(PatternSource(rule.c["pattern"]), v.s)

RuleCodes(rule, v) ==
  IF Mismatch(rule, Seen(rule, v)) THEN {"TYPE_MISMATCH"}
  ELSE IF Seen(rule, v).t = "null" \/ TreeType(Seen(rule, v)) = "" THEN {}
  ELSE Violations(Overlaid(rule, Seen(rule, v)), Seen(rule, v))
\* The own keys of the root of the data that are not reserved
WildKeys(call) == Range(call.inputBefore.keys) \ POISONED_KEYS
\* What the wildcard pass records under the path of a key
StarCodes(call, k) ==
  IF Has(call.schemaBefore, "*")
  THEN RuleCodes(call.schemaBefore.c["*"], call.inputBefore.c[k]) ELSE {}
\* The value under a key once the wildcard pass is over
AfterWildcard(call, k) ==
  IF Has(call.schemaBefore, "*") /\ WritesBack(call.schemaBefore.c["*"])
  THEN Seen(call.schemaBefore.c["*"], call.inputBefore.c[k])
  ELSE call.inputBefore.c[k]
\* What the strict-mode check and the named pass record under that path
LaterCodes(call, k) ==
  IF k \in NamedFields(call.schemaBefore)
  THEN RuleCodes(call.schemaBefore.c[k], AfterWildcard(call, k))
  ELSE IF StrictAt(call.schemaBefore) THEN {"NOT_ALLOWED"} ELSE {}
\* The pass that opens the path of a key in the errors: 1 the wildcard
\* pass, 2 the strict-mode check, 3 the named pass
PassOf(call, k) ==
  IF k \in WildKeys(call) /\ StarCodes(call, k) # {} THEN 1
  ELSE IF k \in WildKeys(call) /\ k \notin NamedFields(call.schemaBefore) THEN 2
  ELSE 3
PlaceOf(errors, path) == CHOOSE i \in DOMAIN errors.keys : errors.keys[i] = path
Wild(call) ==
  /\ Completed(call) /\ call.inputBefore.t = "object"
  /\ Has(call.schemaBefore, "*") \/ Has(call.schemaBefore, "#")

\* C27: at a level every own key of the data that is not reserved, a key
\* with a named rule included, has the '#' rule applied to the key string
\* and the '*' rule to the value before the strict-mode check and the named
\* pass: under the path of a key the codes of '*' come first, then those of
\* the strict-mode check or of the named rule, which sees the value '*'
\* wrote back; the paths are opened pass after pass
WildcardsBeforeNamed ==
  Wild(last) =>
    /\ \A k \in WildKeys(last) :
         /\ Has(last.schemaBefore, "#") =>
              Range(CodesAt(last.errors, caller.prefix \o k \o "#key"))
                = RuleCodes(last.schemaBefore.c["#"], LStr(k))
         /\ \E i \in 0..Len(CodesAt(last.errors, caller.prefix \o k)) :
              /\ i = Cardinality(StarCodes(last, k))
              /\ Len(CodesAt(last.errors, caller.prefix \o k))
                   = i + Cardinality(LaterCodes(last, k))
              /\ Range(SubSeq(CodesAt(last.errors, caller.prefix \o k), 1, i))
                   = StarCodes(last, k)
              /\ Range(SubSeq(CodesAt(last.errors, caller.prefix \o k), i + 1,
                              Len(CodesAt(last.errors, caller.prefix \o k))))
                   = LaterCodes(last, k)
    /\ \A k1, k2 \in (WildKeys(last) \cup NamedFields(last.schemaBefore)) \ POISONED_KEYS :
         (/\ caller.prefix \o k1 \in DOMAIN last.errors.f
          /\ caller.prefix \o k2 \in DOMAIN last.errors.f
          /\ PassOf(last, k1) < PassOf(last, k2))
         => PlaceOf(last.errors, caller.prefix \o k1) < PlaceOf(last.errors, caller.prefix \o k2)

\* One call in strict mode where a named key has the code of '*' and then
\* the code of its own rule, another has the code of '*' alone because its
\* rule accepts the value written back, a key without a rule has the code of
\* '*' and then NOT_ALLOWED, the key rule rejects one key, and a path opened
\* by the strict-mode check stands before one opened by the named pass,
\* against the order of the keys in the data
WildcardThenStrictThenNamed ==
  /\ Wild(last) /\ StrictAt(last.schemaBefore)
  /\ WritesBack(last.schemaBefore.c["*"])
  /\ \E k \in WildKeys(last) \cap NamedFields(last.schemaBefore) :
       CodesAt(last.errors, caller.prefix \o k) = <<"MAX_VIOLATION", "MIN_VIOLATION">>
  /\ \E k \in WildKeys(last) \cap NamedFields(last.schemaBefore) :
       /\ CodesAt(last.errors, caller.prefix \o k) = <<"MAX_VIOLATION">>
       /\ RuleCodes(last.schemaBefore.c[k], last.inputBefore.c[k]) = {"MIN_VIOLATION"}
  /\ \E k \in WildKeys(last) \ NamedFields(last.schemaBefore) :
       CodesAt(last.errors, caller.prefix \o k) = <<"MAX_VIOLATION", "NOT_ALLOWED">>
  /\ \E k \in WildKeys(last) :
       CodesAt(last.errors, caller.prefix \o k \o "#key") = <<"PATTERN_MISMATCH">>
  /\ \E k1, k2 \in WildKeys(last) :
       /\ PlaceOf(last.inputBefore, k1) < PlaceOf(last.inputBefore, k2)
       /\ PassOf(last, k1) = 3 /\ PassOf(last, k2) = 2
       /\ PlaceOf(last.errors, caller.prefix \o k2) < PlaceOf(last.errors, caller.prefix \o k1)
  /\ \E f \in NamedFields(last.schemaBefore) \ WildKeys(last) :
       CodesAt(last.errors, caller.prefix \o f) = <<"REQUIRED">>

\* The largest of a set of naturals, 0 for the empty set
Largest(S) == IF S = {} THEN 0 ELSE CHOOSE n \in S : \A m \in S : m <= n
\* The children schemas a rule can descend with: its own and those of its
\* overlays
KidsOf(rule) ==
  (IF Has(rule, "children") THEN {rule.c["children"]} ELSE {})
  \cup (IF Has(rule, "per_type") /\ rule.c["per_type"].t = "object"
        THEN {rule.c["per_type"].c[t].c["children"] :
                t \in {x \in DOMAIN rule.c["per_type"].c :
                         Has(rule.c["per_type"].c[x], "children")}}
        ELSE {})
\* The values a level hands to a rule: those of the data under the key, or
\* under every key for '*', and the rule's default
ValuesUnder(schema, data, k) ==
  (IF k = "*" THEN {data.c[d] : d \in DOMAIN data.c}
   ELSE IF Has(data, k) THEN {data.c[k]} ELSE {})
  \cup (IF Has(schema.c[k], "default") THEN {schema.c[k].c["default"]} ELSE {})
RECURSIVE PairDepth(_, _)
\* The levels of the nesting the schema and the data have in common: a
\* level, and the deepest of the container values below it under a rule
\* with children
PairDepth(schema, data) ==
  1 + Largest({ PairDepth(kids, v) :
                  <<kids, v>> \in UNION { KidsOf(schema.c[k]) \X
                                          {v \in ValuesUnder(schema, data, k) :
                                             TreeType(v) \in {"object", "array"}} :
                                          k \in {x \in DOMAIN schema.c \ {"@", "#"} :
                                                   schema.c[x].t = "object"} } })
RECURSIVE DataDepth(_)
\* The levels of containers of a value
DataDepth(v) ==
  IF TreeType(v) \in {"object", "array"}
  THEN 1 + Largest({DataDepth(v.c[k]) : k \in DOMAIN v.c})
  ELSE 0

\* C28: every validation call ends: the schema check runs at most once in a
\* call, so the internal validators never begin one of their own, their
\* walk goes no deeper than the meta-schema nests, and the walk of the
\* caller's validator no deeper than the nesting the schema and the data
\* have in common
WalkFollowsNesting ==
  last.op # "none" =>
    /\ last.boots <= 1
    /\ last.metaDeepest <= PairDepth(RULES_SCHEMA_TREE, last.schemaBefore)
    /\ last.boots = 0 => last.metaDeepest = 0
    /\ last.deepest <= PairDepth(last.schemaBefore, last.inputBefore)

\* A first call on a schema nesting four levels over data nesting four: one
\* schema check, whose walk reached the two levels of the meta-schema, and
\* a walk that reached every level the schema and the data share and ended
\* with errors recorded at the deepest
WalkToTheBottom ==
  /\ Completed(last) /\ last.boots = 1 /\ last.metaDeepest = 2
  /\ last.deepest = 4
  /\ PairDepth(last.schemaBefore, last.inputBefore) = 4
  /\ DataDepth(last.inputBefore) = 4
  /\ AllCodes(last.errors) # {}

(***************************************************************************)
(* validateSchema on its own: the caller checks the schema as written, or  *)
(* the schema ODVRules.normalize made of it.                               *)
(***************************************************************************)
\* The number of validateSchema calls of one behaviour
MaxSchemaChecks == 2

\* Schemas with every type given as a list: well-formed two levels deep,
\* with a malformed rule at the second level, with null for children, and
\* with null for a rule
ListedSchemas ==
  { Obj(<< Field("u", <<Types(<<"object">>),
                        Children(<< Field("x", <<Types(<<"string">>), Min(1)>>) >>)>>),
           Field("n", <<Types(<<"integer">>), Required>>) >>),
    Obj(<< Field("u", <<Types(<<"object">>),
                        Children(<< Field("x", <<Types(<<"string">>),
                                                 <<"bogus", LInt(1)>>>>) >>)>>) >>),
    Obj(<< Field("u", <<Types(<<"object">>), <<"children", LNull>>>>) >>),
    Obj(<< <<"a", LNull>>, Field("n", <<Types(<<"integer">>)>>) >>) }

SchemaScenarios ==
  {Sc(schema, <<>>, TRUE, "") : schema \in ListedSchemas \cup {sc.schema : sc \in Scenarios}}

SchemaInit == InitWith(SchemaScenarios)

\* What a validateSchema call leaves behind, given its argument in the heap
\* h it was built in, whether it was normalized first, and the result
\* c = [st, v]
SchemaValidated(normalized, h, arg, c) ==
  /\ heap' = c.st.h
  /\ patternCache' = c.st.cache
  /\ calls' = calls + 1
  /\ prev' = last
  /\ last' = [op |-> "validateSchema", normalized |-> normalized,
              kind |-> IF c.st.ex = "" THEN "return" ELSE "throw",
              ex |-> c.st.ex,
              arg |-> Freeze(h, arg),
              after |-> Freeze(c.st.h, arg),
              same |-> c.v = arg,
              details |-> FreezeErrors(c.st.h, c.st.details),
              boots |-> c.st.boots]
  /\ UNCHANGED <<caller, rules, validators>>

\* validateSchema(schema)
ValidateSchemaCall ==
  /\ calls < MaxSchemaChecks
  /\ SchemaValidated(FALSE, heap, caller.schema, validateSchema(Start, caller.schema))

\* validateSchema(ODVRules.normalize(schema)), for a schema normalize
\* returns
ValidateNormalizedCall ==
  /\ calls < MaxSchemaChecks
  /\ normalize(Start, caller.schema).st.ex = ""
  /\ SchemaValidated(TRUE, normalize(Start, caller.schema).st.h,
                     normalize(Start, caller.schema).v,
                     validateSchema([normalize(Start, caller.schema).st EXCEPT !.boots = 0],
                                    normalize(Start, caller.schema).v))

SchemaNext == ValidateSchemaCall \/ ValidateNormalizedCall

SpecSchema == SchemaInit /\ [][SchemaNext]_vars

RECURSIVE NullWithin(_)
\* A schema with null for a rule or for the children of a rule, at some
\* depth reached by children
NullWithin(schema) ==
  \E k \in (DOMAIN schema.c) \ ({"@"} \cup POISONED_KEYS) :
    \/ schema.c[k].t = "null"
    \/ /\ Has(schema.c[k], "children")
       /\ \/ schema.c[k].c["children"].t = "null"
          \/ schema.c[k].c["children"].t = "object" /\ NullWithin(schema.c[k].c["children"])

\* C29: validateSchema checks a schema and the children nested in it: it
\* returns its argument unchanged for every well-formed schema and throws
\* ODVRulesException when a rule at some depth reached through children is
\* malformed
ValidateSchemaDecides ==
  last.op = "validateSchema" =>
    IF MalformedWithin(last.arg) \/ NullWithin(last.arg) THEN last.ex = "ODVRulesException"
    ELSE last.kind = "return" /\ last.same /\ last.after = last.arg

\* Whether the schema of the shared instance passes the check against the
\* meta-schema
BootPasses == ~rules.broken /\ RulesValidate(Start, rules.normalizedSchema).ex = ""
\* C30, one step: the marker is never taken back; it is set only by a call
\* on the instance that ran the check of a schema that passes it; a call on
\* an instance whose schema fails the check throws ODVRulesException from
\* the check, walks no data and leaves the marker unset
MarkerStep ==
  /\ rules.validated => rules'.validated
  /\ (~rules.validated /\ rules'.validated) =>
       (BootPasses /\ OnInstance(last') /\ last'.boots = 1)
  /\ (~BootPasses /\ last'.op # "none" /\ OnInstance(last')) =>
       /\ ~rules'.validated
       /\ last'.kind = "throw" /\ last'.ex = "ODVRulesException"
       /\ last'.boots = 1 /\ last'.deepest = 0
       /\ last'.data = LNull

\* C30: the validated marker of an ODVRules instance only moves from false
\* to true, and only after a check of its schema that ended without error;
\* a schema that fails the check is never marked, so every validate call
\* against it throws ODVRulesException again and none goes on to the data
MarkerOnlyAfterCheck == [][MarkerStep]_vars

\* Two calls in a row on the instance of a schema that fails the check, by
\* different entry points: each ran the check, threw ODVRulesException and
\* walked no data, and the instance is still unmarked
CheckFailedTwice ==
  /\ ~BootPasses /\ ~rules.validated
  /\ prev.op # "none" /\ OnInstance(prev) /\ OnInstance(last) /\ prev.op # last.op
  /\ prev.ex = "ODVRulesException" /\ prev.boots = 1 /\ prev.deepest = 0
  /\ ~last.validatedBefore
  /\ last.ex = "ODVRulesException" /\ last.boots = 1 /\ last.deepest = 0

====
